---- MODULE Spec2Model ----
(***************************************************************************)
(* Model of the BLS batched ingestion-and-transform pipeline shared by     *)
(* export_cpi_details.py, export_ppi_details.py and                        *)
(* export_employment_details.py, of the single-series FRED scripts, of the *)
(* gold fallback of export_btc_gold.py and of export_cpi.py.               *)
(*                                                                         *)
(* Conventions of the model                                                *)
(*  - text (period codes, years, values) is a sequence of one-character    *)
(*    strings, so that startswith, slicing, replace, int() and float() are *)
(*    computed character by character;                                     *)
(*  - a parsed value is an exact number of tenths (100.0 is 1000); the     *)
(*    value texts of the model carry at most one fractional digit;         *)
(*  - a float64 cell of a DataFrame is an exact fraction [k, n, d] in      *)
(*    lowest terms, or NaN (pandas' null), +inf or -inf; rounding is not   *)
(*    modelled;                                                            *)
(*  - a series id and a label are naturals standing for the strings, in    *)
(*    their sort order;                                                    *)
(*  - a Timestamp is <<year, month, day>>;                                 *)
(*  - a sleep of BACKOFF ** attempt seconds is an exact number of          *)
(*    milliseconds.                                                        *)
(*                                                                         *)
(* Specifications                                                          *)
(*  - Spec: main from the batch loop to the saved workbook, with call_bls  *)
(*    and parse_bls_result per batch; LiveSpec: the same with fairness;    *)
(*  - SpecParse: parse_bls_result applied to one payload;                  *)
(*  - SpecChanges: compute_pct_changes / build_changes applied to one      *)
(*    pivot table;                                                         *)
(*  - SpecPivot: the window cut and the pivot applied to fetched frames;   *)
(*  - SpecCatalog: read_series_map applied to one mapping file;            *)
(*  - SpecFred: a single-series FRED script;                               *)
(*  - SpecGold: fetch_gold_with_fallback;                                  *)
(*  - SpecFredCpi: export_cpi.py.                                          *)
(***************************************************************************)
EXTENDS Integers, Sequences, FiniteSets, TLC

VARIABLES
    script,       \* which script runs: "cpi", "ppi", "emp", a FRED script, ...
    series_map,   \* the catalog: a sequence of <<series_id, label, value_type>>
    pc,           \* position of the run
    b,            \* main: 1-based index of the batch in hand
    attempt,      \* call_bls: the loop variable
    last_err,     \* call_bls: last_err
    data,         \* the response payload call_bls returned / parse_bls_result reads
    calllog,      \* events of the call_bls invocation in hand, in order
    calls,        \* main: the batches call_bls was invoked with, in order
    posted,       \* the number of requests issued for each of these batches
    slept,        \* the number of sleeps taken for each of these batches
    long_frames,  \* main: the parsed frame of every batch so far
    df_long,      \* parse_bls_result: the frame it returned
    long_df,      \* main: pd.concat(long_frames)
    error,        \* the exception that ended the run, or None
    pivot_level,  \* the pivot table: [index |-> dates, cols |-> label -> values]
    changes,      \* the change tables: table name -> table
    START,        \* the setting START: <<year, month>>
    END,          \* the setting END: <<year, month>>, or <<>> for None
    csv_file,     \* the mapping file SERIES_CSV on disk
    outfile,      \* the output workbook on disk
    book,         \* the sheets of the workbook the ExcelWriter holds in memory
    stdout,       \* the messages printed so far
    exit_status,  \* the exit status of the process, once pc = "exit"
    sym,          \* fetch_gold_with_fallback: 1-based index of the source in hand
    gold,         \* fetch_gold_with_fallback: <<label, frame>> it returned
    frames,       \* export_cpi: the frames fetched so far
    failed,       \* export_cpi: <<code, error text>> of the series that failed
    code          \* export_cpi: 1-based index of the series in hand

vars == <<script, series_map, pc, b, attempt, last_err, data, calllog, calls, posted, slept,
          long_frames, df_long, long_df, error, pivot_level, changes,
          START, END, csv_file, outfile, book, stdout, exit_status,
          sym, gold, frames, failed, code>>

\* the settings and the mapping file, which no step of a run changes
settings == <<START, END, csv_file>>

\* what a run leaves behind
output == <<outfile, book, stdout, exit_status>>

\* the variables of export_btc_gold and export_cpi, which no other script has
market == <<sym, gold, frames, failed, code>>

None == "None"

\* None where an exception is expected, and None where a payload is expected
NoError == [type |-> None, attempt |-> 0]
NoData == [fault |-> None, status |-> None, series |-> <<>>]

(***************************************************************************)
(* Program constants                                                       *)
(***************************************************************************)
RETRIES == 3
\* BACKOFF = 1.6, in tenths
BACKOFF == 16
batch_size == 50
MoMLag == 1
YoYLag == 12

Scripts == {"cpi", "ppi", "emp"}

\* START = "2000-01" in the CPI and employment scripts, "2010-01" in the PPI
\* script, as <<year, month>>
DefaultStart(scr) == IF scr = "ppi" THEN <<2010, 1>> ELSE <<2000, 1>>

\* END = None
NoEnd == <<>>

\* os.path.exists(SERIES_CSV) is False
NoCsv == [exists |-> FALSE, columns |-> <<>>, rows |-> <<>>]

\* fetch_gold_with_fallback has not returned
NoGold == <<>>

\* no file of the output name on disk
NoWorkbook == [exists |-> FALSE, sheets |-> <<>>]

\* before the run: nothing printed and no output file on disk
NoOutput ==
    /\ outfile = NoWorkbook
    /\ book = <<>>
    /\ stdout = <<>>
    /\ exit_status = 0

\* the settings as the scripts ship them, without a mapping file, before
\* the run
Defaults ==
    /\ START = DefaultStart(script)
    /\ END = NoEnd
    /\ csv_file = NoCsv
    /\ NoOutput

(***************************************************************************)
(* Bounds of the model                                                     *)
(***************************************************************************)
\* longest catalog of a modelled run (two full batches and one more id)
MaxIds == 101
\* longest free list of data items in one parsed series
MaxItems == 2
\* most rows of a pivot table
MaxRows == 14
\* most data rows of a mapping file
MaxCsvRows == 3

(***************************************************************************)
(* Python evaluates an argument once, before the call: F(x) with x         *)
(* evaluated first                                                         *)
(***************************************************************************)
Strict(F(_), x) == CHOOSE out \in {F(v) : v \in {x}} : TRUE

(***************************************************************************)
(* Text helpers: Python's str and int()/float() on the model's alphabet    *)
(***************************************************************************)
Digits == <<"0", "1", "2", "3", "4", "5", "6", "7", "8", "9">>

IsDigit(c) == \E i \in 1..10 : Digits[i] = c

DigitVal(c) == (CHOOSE i \in 1..10 : Digits[i] = c) - 1

AllDigits(s) == \A i \in 1..Len(s) : IsDigit(s[i])

\* the number written by the first n characters of s
RECURSIVE DigitsUpTo(_, _)
DigitsUpTo(s, n) == IF n = 0 THEN 0 ELSE 10 * DigitsUpTo(s, n - 1) + DigitVal(s[n])

DigitsVal(s) == DigitsUpTo(s, Len(s))

\* s.startswith(c) for a one-character prefix
StartsWith(s, c) == Len(s) >= 1 /\ s[1] = c

\* s[1:]
Tail1(s) == IF Len(s) = 0 THEN <<>> ELSE SubSeq(s, 2, Len(s))

\* s.replace(",", "")
StripCommas(s) == SelectSeq(s, LAMBDA c : c # ",")

\* int(s): [ok, val]; a ValueError is ok = FALSE
IntOf(s) ==
    IF Len(s) >= 1 /\ AllDigits(s)
    THEN [ok |-> TRUE, val |-> DigitsVal(s)]
    ELSE [ok |-> FALSE, val |-> 0]

\* position of the first "." of s, or 0
DotPos(s) ==
    IF \E i \in 1..Len(s) : s[i] = "."
    THEN CHOOSE i \in 1..Len(s) : s[i] = "." /\ \A j \in 1..(i - 1) : s[j] # "."
    ELSE 0

\* float(s) of an unsigned text, in tenths
UFloatOf(s) ==
    LET p  == DotPos(s)
        ip == IF p = 0 THEN s ELSE SubSeq(s, 1, p - 1)
        fp == IF p = 0 THEN <<>> ELSE SubSeq(s, p + 1, Len(s))
    IN  IF AllDigits(ip) /\ AllDigits(fp) /\ Len(ip) + Len(fp) >= 1 /\ Len(fp) <= 1
        THEN [ok |-> TRUE,
              val |-> 10 * DigitsVal(ip) + (IF Len(fp) = 1 THEN DigitVal(fp[1]) ELSE 0)]
        ELSE [ok |-> FALSE, val |-> 0]

\* float(s): [ok, val] with val in tenths; a ValueError is ok = FALSE
FloatOf(s) ==
    IF StartsWith(s, "-")
    THEN LET u == UFloatOf(Tail1(s)) IN [ok |-> u.ok, val |-> 0 - u.val]
    ELSE UFloatOf(s)

(***************************************************************************)
(* Dates: pd.Timestamp(year, month, 1) + pd.offsets.MonthEnd(0)            *)
(***************************************************************************)
IsLeap(y) == (y % 4 = 0 /\ y % 100 # 0) \/ y % 400 = 0

DaysInMonth(y, m) ==
    IF m = 2 THEN (IF IsLeap(y) THEN 29 ELSE 28)
    ELSE IF m \in {4, 6, 9, 11} THEN 30 ELSE 31

\* pd.Timestamp(year=y, month=m, day=d): a ValueError is ok = FALSE
Timestamp(y, m, d) ==
    IF m \in 1..12 /\ d \in 1..DaysInMonth(y, m)
    THEN [ok |-> TRUE, val |-> <<y, m, d>>]
    ELSE [ok |-> FALSE, val |-> <<0, 0, 0>>]

\* the offset left out: the date stays the first of the month
MonthEndNoRoll(ts) == ts

\* ts + MonthEnd(0): a date that is a month end stays, any other date rolls
\* forward to the end of its month
MonthEnd0(ts) ==
    IF ts[3] = DaysInMonth(ts[1], ts[2]) THEN ts
    ELSE <<ts[1], ts[2], DaysInMonth(ts[1], ts[2])>>

\* ts1 < ts2
DateLess(t1, t2) ==
    \/ t1[1] < t2[1]
    \/ t1[1] = t2[1] /\ t1[2] < t2[2]
    \/ t1[1] = t2[1] /\ t1[2] = t2[2] /\ t1[3] < t2[3]

(***************************************************************************)
(* The catalog lookups main builds from series_map                         *)
(***************************************************************************)
\* series_ids = [sid for sid, ... in series_map]
SeriesIds(smap) == [i \in 1..Len(smap) |-> smap[i][1]]

HasSid(smap, sid) == \E i \in 1..Len(smap) : smap[i][1] = sid

\* the last entry of sid: a dict comprehension keeps the last value of a key
LastEntry(smap, sid) ==
    smap[CHOOSE i \in 1..Len(smap) :
            smap[i][1] = sid /\ \A j \in (i + 1)..Len(smap) : smap[j][1] # sid]

\* labels.get(sid, sid) with labels = {sid: lab for sid, lab in series_map}
LabelGet(smap, sid) == IF HasSid(smap, sid) THEN LastEntry(smap, sid)[2] ELSE sid

\* vtypes.get(sid, "level") with vtypes = {sid: vtype ...}
VtypeGet(smap, sid) == IF HasSid(smap, sid) THEN LastEntry(smap, sid)[3] ELSE "level"

(***************************************************************************)
(* parse_bls_result                                                        *)
(***************************************************************************)
M13 == <<"M", "1", "3">>

\* the period test that skips an item: only the PPI script names M13
SkipPeriod(scr, period) ==
    IF scr = "ppi" THEN ~StartsWith(period, "M") \/ period = M13
    ELSE ~StartsWith(period, "M")

\* the text handed to float(): CPI and employment strip the commas first
ValueText(scr, value) == IF scr = "ppi" THEN value ELSE StripCommas(value)

\* the body of the loop over one item: "skip" (continue), "raise" (ValueError)
\* or "row" with the PeriodEnd and the value
ParseItem(scr, item) ==
    LET year  == IntOf(item.year)
        month == IntOf(Tail1(item.period))
        value == FloatOf(ValueText(scr, item.value))
        first == IF month.ok /\ year.ok THEN Timestamp(year.val, month.val, 1)
                 ELSE [ok |-> FALSE, val |-> <<0, 0, 0>>]
    IN  IF scr # "emp" /\ ~year.ok THEN [kind |-> "raise"]
        ELSE IF SkipPeriod(scr, item.period) THEN [kind |-> "skip"]
        ELSE IF ~year.ok \/ ~month.ok \/ ~value.ok \/ ~first.ok THEN [kind |-> "raise"]
        ELSE [kind |-> "row", PeriodEnd |-> MonthEnd0(first.val), value |-> value.val]

\* the row appended for an item that ParseItem made a "row" of
MakeRow(scr, smap, sid, r) ==
    [series_id  |-> sid,
     label      |-> LabelGet(smap, sid),
     value_type |-> IF scr = "emp" THEN VtypeGet(smap, sid) ELSE None,
     PeriodEnd  |-> r.PeriodEnd,
     value      |-> r.value]

\* the rows appended for the items k.. of one series, in item order
RECURSIVE SeriesRows(_, _, _, _)
SeriesRows(scr, smap, ts, k) ==
    IF k > Len(ts.data) THEN <<>>
    ELSE (IF ParseItem(scr, ts.data[k]).kind = "row"
          THEN <<MakeRow(scr, smap, ts.seriesID, ParseItem(scr, ts.data[k]))>>
          ELSE <<>>)
         \o SeriesRows(scr, smap, ts, k + 1)

\* the rows appended for the series s.. of the payload, in order
RECURSIVE AllRows(_, _, _, _)
AllRows(scr, smap, series, s) ==
    IF s > Len(series) THEN <<>>
    ELSE SeriesRows(scr, smap, series[s], 1) \o AllRows(scr, smap, series, s + 1)

\* some item raises: the loops stop at the first one and the call raises
Raises(scr, series) ==
    \E s \in 1..Len(series) : \E k \in 1..Len(series[s].data) :
        ParseItem(scr, series[s].data[k]).kind = "raise"

\* (label, PeriodEnd) of r1 sorts strictly before that of r2
RowLess(r1, r2) ==
    \/ r1.label < r2.label
    \/ r1.label = r2.label /\ DateLess(r1.PeriodEnd, r2.PeriodEnd)

\* the place of rows[i] in the stable sort: after every row that sorts before
\* it and every earlier row that sorts equal to it
Rank(rows, i) ==
    1 + Cardinality({j \in 1..Len(rows) :
                        \/ RowLess(rows[j], rows[i])
                        \/ j < i /\ ~RowLess(rows[i], rows[j])})

StableSort(rows) ==
    [p \in 1..Len(rows) |-> rows[CHOOSE i \in 1..Len(rows) : Rank(rows, i) = p]] \o <<>>

\* df.sort_values(["label", "PeriodEnd"])
SortRows(rows) == Strict(StableSort, rows)

\* parse_bls_result(data, labels[, vtypes]): [ok, rows]; ok = FALSE is the
\* ValueError that an item raised
parse_bls_result(scr, smap, payload) ==
    IF Raises(scr, payload.series) THEN [ok |-> FALSE, rows |-> <<>>]
    ELSE [ok |-> TRUE, rows |-> SortRows(AllRows(scr, smap, payload.series, 1))]

(***************************************************************************)
(* chunked                                                                 *)
(***************************************************************************)
\* a slice one element too long: lst[i:i + n + 1]
SliceOneMore(lst, i, n) ==
    SubSeq(lst, i + 1, IF i + n + 1 < Len(lst) THEN i + n + 1 ELSE Len(lst))

\* lst[i:i + n] for a 0-based i: the slice stops at the end of the list
Slice(lst, i, n) == SubSeq(lst, i + 1, IF i + n < Len(lst) THEN i + n ELSE Len(lst))

\* the values of range(0, len, n)
RangeStarts(len, n) == {i \in 0..len : i < len /\ i % n = 0}

\* chunked(lst, n): the batches in the order the generator yields them
chunked(lst, n) ==
    LET starts == RangeStarts(Len(lst), n) IN
    [k \in 1..Cardinality(starts) |-> Slice(lst, (k - 1) * n, n)]

(***************************************************************************)
(* What the provider can answer to one request                             *)
(***************************************************************************)
YearText(y) ==
    <<Digits[(y \div 1000) + 1], Digits[((y \div 100) % 10) + 1],
      Digits[((y \div 10) % 10) + 1], Digits[(y % 10) + 1]>>

\* the provider's code of month m: "M01" .. "M12" (and "M13")
MonthCode(m) == <<"M", Digits[(m \div 10) + 1], Digits[(m % 10) + 1]>>

Item(year, period, value) == [year |-> year, period |-> period, value |-> value]

V100 == <<"1", "0", "0", ".", "0">>
V110 == <<"1", "1", "0", ".", "0">>
VComma == <<"1", ",", "2", "3", "4", ".", "5">>
VDash == <<"-">>
A01 == <<"A", "0", "1">>

\* a monthly series of the first catalog entry, and the same with the
\* annual average M13 in front (the provider lists the latest period first)
MonthlySeries ==
    <<[seriesID |-> 1,
       data |-> <<Item(YearText(2024), MonthCode(2), V110),
                  Item(YearText(2024), MonthCode(1), V100)>>]>>
AnnualAvgSeries ==
    <<[seriesID |-> 1,
       data |-> <<Item(YearText(2023), M13, V100),
                  Item(YearText(2023), MonthCode(12), V100)>>]>>

Response(fault, status, series) == [fault |-> fault, status |-> status, series |-> series]

\* fault "transport": requests.post raises; fault "http": raise_for_status
\* raises; status None: the JSON body has no status field
Responses ==
    { Response("transport", None, <<>>),
      Response("http", None, <<>>),
      Response("none", "REQUEST_NOT_PROCESSED", <<>>),
      Response("none", None, MonthlySeries),
      Response("none", "REQUEST_SUCCEEDED", MonthlySeries),
      Response("none", "REQUEST_SUCCEEDED", AnnualAvgSeries) }

(***************************************************************************)
(* call_bls                                                                *)
(***************************************************************************)
\* the status test left out: every parsed body is returned
SucceededAnyStatus(resp) == resp.fault = "none"

\* the try block reaches "return data"
Succeeded(resp) == resp.fault = "none" /\ resp.status = "REQUEST_SUCCEEDED"

\* the exception the try block raises on resp, tagged with the attempt
ErrorOf(resp, att) ==
    [type |-> IF resp.fault = "transport" THEN "ConnectionError"
              ELSE IF resp.fault = "http" THEN "HTTPError"
              ELSE "RuntimeError",
     attempt |-> att]

\* no ceiling: the loop sleeps after every failed attempt
SleepsAfterAny(att) == TRUE

\* the retry ceiling off by one: the error is raised one attempt early
SleepsAfterEarly(att) == att < RETRIES - 1

\* if attempt < RETRIES: sleep, else: raise last_err
SleepsAfter(att) == att < RETRIES

RECURSIVE Pow(_, _)
Pow(x, n) == IF n = 0 THEN 1 ELSE x * Pow(x, n - 1)

\* a linear backoff: BACKOFF * attempt
BackoffLinear(att) == BACKOFF * att * 100

\* BACKOFF ** attempt seconds, in milliseconds
BackoffDelay(att) == (Pow(BACKOFF, att) * 1000) \div Pow(10, att)

\* a request that always carries the identifiers of the first batch
FirstBatch == chunked(SeriesIds(series_map), batch_size)[1]

\* the batch main hands to call_bls
Batch == chunked(SeriesIds(series_map), batch_size)[b]

\* for batch in chunked(series_ids, batch_size): data = call_bls(batch, ...)
CallBls ==
    /\ pc = "loop"
    /\ b < Len(chunked(SeriesIds(series_map), batch_size))
    /\ b' = b + 1
    /\ calls' = Append(calls, chunked(SeriesIds(series_map), batch_size)[b + 1])
    /\ posted' = Append(posted, 0)
    /\ slept' = Append(slept, 0)
    /\ attempt' = 1
    /\ last_err' = NoError
    /\ calllog' = <<>>
    /\ pc' = "post"
    /\ UNCHANGED <<script, settings, market, output, series_map, data, long_frames, df_long, long_df, error,
                   pivot_level, changes>>

\* one pass of the retry loop: the request and what the provider answers
Post ==
    /\ pc = "post"
    /\ \E resp \in Responses :
        /\ calllog' = Append(calllog, [ev |-> "post", attempt |-> attempt,
                                       seriesid |-> Batch, startyear |-> START[1],
                                       resp |-> resp])
        /\ posted' = [posted EXCEPT ![Len(posted)] = @ + 1]
        /\ IF Succeeded(resp)
           THEN /\ data' = resp
                /\ pc' = "parse"
                /\ UNCHANGED <<last_err, error>>
           ELSE /\ last_err' = ErrorOf(resp, attempt)
                /\ IF SleepsAfter(attempt)
                   THEN pc' = "sleep" /\ UNCHANGED error
                   ELSE pc' = "raised" /\ error' = last_err'
                /\ UNCHANGED data
    /\ UNCHANGED <<script, slept, settings, market, output, series_map, b, attempt, calls, long_frames, df_long, long_df,
                   pivot_level, changes>>

\* time.sleep(BACKOFF ** attempt), then the next pass of the loop
Sleep ==
    /\ pc = "sleep"
    /\ calllog' = Append(calllog, [ev |-> "sleep", ms |-> BackoffDelay(attempt)])
    /\ slept' = [slept EXCEPT ![Len(slept)] = @ + 1]
    /\ attempt' = attempt + 1
    /\ pc' = "post"
    /\ UNCHANGED <<script, posted, settings, market, output, series_map, b, last_err, data, calls, long_frames, df_long,
                   long_df, error, pivot_level, changes>>

(***************************************************************************)
(* main: the batch loop                                                    *)
(***************************************************************************)
\* df_long = parse_bls_result(data, labels); long_frames.append(df_long).
\* call_bls has returned: its locals and the events of the call are gone
\* when main goes on to the next batch.
Parse ==
    /\ pc = "parse"
    /\ \E r \in {parse_bls_result(script, series_map, data)} :
       IF r.ok
       THEN /\ df_long' = r.rows
            /\ long_frames' = Append(long_frames, r.rows)
            /\ pc' = "loop"
            /\ attempt' = 0
            /\ last_err' = NoError
            /\ calllog' = <<>>
            /\ UNCHANGED error
       ELSE /\ error' = [type |-> "ValueError", attempt |-> attempt]
            /\ pc' = "raised"
            /\ UNCHANGED <<df_long, long_frames, attempt, last_err, calllog>>
    /\ UNCHANGED <<script, posted, slept, settings, market, output, series_map, b, data, calls,
                   long_df, pivot_level, changes>>

RECURSIVE Concat(_)
Concat(objs) ==
    IF Len(objs) = 0 THEN <<>>
    ELSE Concat(SubSeq(objs, 1, Len(objs) - 1)) \o objs[Len(objs)]

\* the loop is exhausted: raise on no frame, else long_df = pd.concat(...)
EndLoop ==
    /\ pc = "loop"
    /\ b >= Len(chunked(SeriesIds(series_map), batch_size))
    /\ IF long_frames = <<>>
       THEN /\ error' = [type |-> "RuntimeError", attempt |-> 0]
            /\ pc' = "raised"
            /\ UNCHANGED long_df
       ELSE /\ long_df' = Concat(long_frames)
            /\ pc' = "fetched"
            /\ UNCHANGED error
    /\ UNCHANGED <<script, posted, slept, settings, market, output, series_map, b, attempt, last_err, data, calllog, calls,
                   long_frames, df_long, pivot_level, changes>>

\* the catalog of n entries main got from read_series_map
Catalog(n) == [i \in 1..n |-> <<i, 1000 + i, IF i % 2 = 0 THEN "rate" ELSE "level">>]

NoPivot == [index |-> <<>>, cols |-> <<>>]

Init ==
    /\ script \in Scripts
    /\ \E n \in 0..MaxIds : series_map = Catalog(n)
    /\ pc = "loop"
    /\ b = 0
    /\ attempt = 0
    /\ last_err = NoError
    /\ data = NoData
    /\ calllog = <<>>
    /\ calls = <<>>
    /\ posted = <<>>
    /\ slept = <<>>
    /\ sym = 0
    /\ gold = NoGold
    /\ frames = <<>>
    /\ failed = <<>>
    /\ code = 0
    /\ long_frames = <<>>
    /\ df_long = <<>>
    /\ long_df = <<>>
    /\ error = NoError
    /\ pivot_level = NoPivot
    /\ changes = <<>>
    /\ Defaults

(***************************************************************************)
(* Claims about chunked, call_bls and the batch loop (specification Spec)  *)
(***************************************************************************)
PostEvents == SelectSeq(calllog, LAMBDA e : e.ev = "post")

SleepEvents == SelectSeq(calllog, LAMBDA e : e.ev = "sleep")

\* BACKOFF^1 and BACKOFF^2 seconds in milliseconds: 1.6 and 2.56
ExpectedDelays == <<1600, 2560>>

\* the log is k failed requests, each followed by its sleep, in order
FailedPrefix(k) ==
    \A j \in 1..k :
        /\ calllog[2 * j - 1].ev = "post"
        /\ calllog[2 * j - 1].attempt = j
        /\ ~(calllog[2 * j - 1].resp.fault = "none"
             /\ calllog[2 * j - 1].resp.status = "REQUEST_SUCCEEDED")
        /\ calllog[2 * j].ev = "sleep"
        /\ calllog[2 * j].ms = ExpectedDelays[j]

\* C1: chunked(list, 50) yields batches of 1 to 50 identifiers whose
\* concatenation in order is the list, and main calls call_bls once per
\* yielded batch, in that order.
C1_ChunkedPartition ==
    LET ids == SeriesIds(series_map)
        bs  == chunked(ids, 50)
    IN  /\ \A k \in 1..Len(bs) : Len(bs[k]) >= 1 /\ Len(bs[k]) <= 50
        /\ Concat(bs) = ids
        /\ Len(calls) <= Len(bs)
        /\ \A k \in 1..Len(calls) : calls[k] = bs[k]
        /\ pc = "fetched" => calls = bs

\* a run over 101 identifiers (two full batches and a batch of one) fetched
\* every batch
C1_Witness ==
    /\ pc = "fetched"
    /\ Len(series_map) = 101
    /\ Len(calls) = 3
    /\ Len(calls[3]) = 1

\* C2: when the first k attempts of call_bls fail and attempt k+1 succeeds
\* (k in 0..2), call_bls returns the payload of attempt k+1 after exactly
\* k+1 requests and exactly k sleeps of BACKOFF^1 .. BACKOFF^k, each sleep
\* between the failed attempt and the next request.
C2_RetryThenSuccess ==
    (/\ Len(calllog) >= 1
     /\ calllog[Len(calllog)].ev = "post"
     /\ calllog[Len(calllog)].resp.fault = "none"
     /\ calllog[Len(calllog)].resp.status = "REQUEST_SUCCEEDED")
    => LET k == Len(PostEvents) - 1 IN
       /\ k \in 0..2
       /\ Len(calllog) = 2 * k + 1
       /\ Len(SleepEvents) = k
       /\ FailedPrefix(k)
       /\ calllog[Len(calllog)].attempt = k + 1
       /\ data = calllog[Len(calllog)].resp
       /\ pc \notin {"post", "sleep"}
       /\ pc = "raised" => error.type \in {"ValueError", "OSError"}

\* two failed attempts, then the third returned its payload
C2_Witness ==
    /\ pc = "parse"
    /\ Len(calllog) = 5
    /\ calllog[2].ms + calllog[4].ms = 4160
    /\ data = calllog[5].resp

\* C3: when every attempt fails, exactly RETRIES = 3 requests are issued
\* and never a fourth, exactly two sleeps occur (BACKOFF^1 then BACKOFF^2,
\* none after the last failure), and the error raised is the third one.
C3_Exhaustion ==
    /\ Len(PostEvents) <= 3
    /\ Len(SleepEvents) <= 2
    /\ (pc = "raised" /\ error.type \notin {"ValueError"} /\ error.attempt # 0)
       => /\ Len(calllog) = 5
          /\ FailedPrefix(2)
          /\ calllog[5].ev = "post"
          /\ calllog[5].attempt = 3
          /\ ~(calllog[5].resp.fault = "none"
               /\ calllog[5].resp.status = "REQUEST_SUCCEEDED")
          /\ error = ErrorOf(calllog[5].resp, 3)
          /\ error = last_err

\* three failures of three different kinds: the run ended with the third
C3_Witness ==
    /\ pc = "raised"
    /\ Len(calllog) = 5
    /\ calllog[1].resp.fault = "transport"
    /\ calllog[3].resp.fault = "http"
    /\ calllog[5].resp.fault = "none"
    /\ error.type = "RuntimeError"
    /\ error.attempt = 3

\* a parsed body whose status is not the success sentinel
BadStatus(resp) == resp.fault = "none" /\ resp.status # "REQUEST_SUCCEEDED"

\* C4: call_bls never returns a payload whose status is not
\* "REQUEST_SUCCEEDED": such a response consumes one of the 3 attempts and
\* is followed by the same backoff sleep and retry as any other failure.
C4_OnlySucceededReturned ==
    /\ data # NoData => data.status = "REQUEST_SUCCEEDED"
    /\ \A j \in 1..Len(calllog) :
        (calllog[j].ev = "post" /\ BadStatus(calllog[j].resp))
        => LET a == calllog[j].attempt IN
           /\ a \in 1..3
           /\ j = 2 * a - 1
           /\ a < 3 => \/ j = Len(calllog) /\ pc = "sleep"
                       \/ /\ j < Len(calllog)
                          /\ calllog[j + 1].ev = "sleep"
                          /\ calllog[j + 1].ms = ExpectedDelays[a]
                          /\ \/ j + 1 = Len(calllog) /\ pc = "post"
                             \/ /\ j + 1 < Len(calllog)
                                /\ calllog[j + 2].ev = "post"
                                /\ calllog[j + 2].attempt = a + 1
           /\ a = 3 => /\ j = Len(calllog)
                       /\ pc = "raised"
                       /\ error = [type |-> "RuntimeError", attempt |-> 3]

\* a body with data but no status was answered first; the payload returned
\* is that of the retry
C4_Witness ==
    /\ pc = "parse"
    /\ Len(calllog) = 3
    /\ calllog[1].resp = Response("none", None, MonthlySeries)
    /\ calllog[2].ev = "sleep"
    /\ data = calllog[3].resp

(***************************************************************************)
(* parse_bls_result on its own: specification SpecParse                    *)
(***************************************************************************)
\* the years of the parsed items: a century year that is no leap year, one
\* that is, a common year and a leap year
Years == {1900, 2000, 2023, 2024}

Q01 == <<"Q", "0", "1">>
S01 == <<"S", "0", "1">>

\* the period codes that are not a month
OtherCodes == {M13, A01, Q01, S01}

\* the twelve months of year y, latest first, as the provider lists them
FullYear(y) == [k \in 1..12 |-> Item(YearText(y), MonthCode(13 - k), V100)] \o <<>>

\* a full year alone, or with one more item in front or at the end
FullYearLists ==
    {FullYear(y) : y \in Years}
    \cup {<<Item(YearText(y), c, V100)>> \o FullYear(y) : y \in Years, c \in OtherCodes}
    \cup {FullYear(y) \o <<Item(YearText(y), c, V100)>> : y \in Years, c \in OtherCodes}

\* the items of the free lists
FreeItems ==
    {Item(YearText(y), p, V100) : y \in {2023, 2024},
                                  p \in {MonthCode(2), MonthCode(12), M13, A01}}
    \cup {Item(YearText(2024), MonthCode(2), VComma), Item(YearText(2024), MonthCode(2), VDash)}

RECURSIVE ListsUpTo(_, _)
ListsUpTo(S, n) ==
    IF n = 0 THEN {<<>>}
    ELSE {<<>>} \cup {<<x>> \o l : x \in S, l \in ListsUpTo(S, n - 1)}

ParseInputs == FullYearLists \cup ListsUpTo(FreeItems, MaxItems)

\* a series id of the catalog and one the catalog does not hold
ParseSids == {1, 7}

InitParse ==
    /\ script \in Scripts
    /\ series_map = Catalog(2)
    /\ \E sid \in ParseSids : \E items \in ParseInputs :
          data = Response("none", "REQUEST_SUCCEEDED", <<[seriesID |-> sid, data |-> items]>>)
    /\ pc = "parse_call"
    /\ b = 0
    /\ attempt = 0
    /\ last_err = NoError
    /\ calllog = <<>>
    /\ calls = <<>>
    /\ posted = <<>>
    /\ slept = <<>>
    /\ sym = 0
    /\ gold = NoGold
    /\ frames = <<>>
    /\ failed = <<>>
    /\ code = 0
    /\ long_frames = <<>>
    /\ df_long = <<>>
    /\ long_df = <<>>
    /\ error = NoError
    /\ pivot_level = NoPivot
    /\ changes = <<>>
    /\ Defaults

\* df_long = parse_bls_result(data, labels): it returns the frame or raises
ParseCall ==
    /\ pc = "parse_call"
    /\ \E r \in {parse_bls_result(script, series_map, data)} :
       IF r.ok
       THEN df_long' = r.rows /\ pc' = "parsed" /\ UNCHANGED error
       ELSE error' = [type |-> "ValueError", attempt |-> 0] /\ pc' = "parse_raised"
            /\ UNCHANGED df_long
    /\ UNCHANGED <<script, posted, slept, settings, market, output, series_map, b, attempt, last_err, data, calllog, calls,
                   long_frames, long_df, pivot_level, changes>>

NextParse == ParseCall

SpecParse == InitParse /\ [][NextParse]_vars

(***************************************************************************)
(* Claims about parse_bls_result (specification SpecParse)                 *)
(***************************************************************************)
\* the data items parse_bls_result was given
ItemsIn == data.series[1].data

MonthCodes == {MonthCode(m) : m \in 1..12}

\* the value of the item is a plain number without grouping separators
PlainValue(item) == FloatOf(item.value).ok

Count(seq, Test(_)) == Cardinality({k \in 1..Len(seq) : Test(seq[k])})

\* C5: parse_bls_result completes without raising and emits exactly one
\* record per data item whose period code is in M01..M12 and none for any
\* other code (twelve records for M01..M12 plus M13), in each of the three
\* scripts. Stated for items whose values are plain numbers.
C5_MonthlyRecordsOnly ==
    (pc # "parse_call" /\ \A k \in 1..Len(ItemsIn) : PlainValue(ItemsIn[k]))
    => /\ pc = "parsed"
       /\ Len(df_long) = Count(ItemsIn, LAMBDA it : it.period \in MonthCodes)

\* the last day of month m of year y
LastDay(y, m) ==
    CASE m \in {1, 3, 5, 7, 8, 10, 12} -> 31
      [] m \in {4, 6, 9, 11} -> 30
      [] m = 2 /\ y % 4 = 0 /\ (y % 100 # 0 \/ y % 400 = 0) -> 29
      [] OTHER -> 28

\* the PeriodEnd the claim gives the item: the last day of its year and of
\* the month its code Mmm names
ExpectedPeriodEnd(it) ==
    <<IntOf(it.year).val, IntOf(Tail1(it.period)).val,
      LastDay(IntOf(it.year).val, IntOf(Tail1(it.period)).val)>>

\* C6: every record parse_bls_result emits has a PeriodEnd equal to the
\* last calendar day of the year and month of its item (28/29 February by
\* leap year, 30 or 31 otherwise), and no record has another day.
C6_PeriodEndIsMonthEnd ==
    pc = "parsed"
    => /\ \A k \in 1..Len(df_long) :
            /\ df_long[k].PeriodEnd[2] \in 1..12
            /\ df_long[k].PeriodEnd[3]
                 = LastDay(df_long[k].PeriodEnd[1], df_long[k].PeriodEnd[2])
       /\ \A y \in Years : \A m \in 1..12 :
            Count(df_long, LAMBDA r : r.PeriodEnd[1] = y /\ r.PeriodEnd[2] = m)
              = Count(ItemsIn, LAMBDA it : it.period \in MonthCodes
                                           /\ ExpectedPeriodEnd(it)[1] = y
                                           /\ ExpectedPeriodEnd(it)[2] = m)

\* the twelve months of the leap year 2024 were parsed: February ends on
\* the 29th, April on the 30th, December on the 31st
C6_Witness ==
    /\ pc = "parsed"
    /\ Len(df_long) = 12
    /\ df_long[2].PeriodEnd = <<2024, 2, 29>>
    /\ df_long[4].PeriodEnd = <<2024, 4, 30>>
    /\ df_long[12].PeriodEnd = <<2024, 12, 31>>

(***************************************************************************)
(* float64 values of a DataFrame, as exact fractions                       *)
(***************************************************************************)
RECURSIVE GcdPair(_)
GcdPair(p) == IF p[2] = 0 THEN p[1] ELSE Strict(GcdPair, <<p[2], p[1] % p[2]>>)

Abs(x) == IF x < 0 THEN 0 - x ELSE x

NaN == [k |-> "nan", n |-> 0, d |-> 0]
PosInf == [k |-> "inf", n |-> 1, d |-> 0]
NegInf == [k |-> "inf", n |-> 0 - 1, d |-> 0]

\* the finite float n/d (d # 0), in lowest terms with a positive denominator
Reduced(p) ==
    [k |-> "num",
     n |-> (IF p[2] < 0 THEN 0 - p[1] ELSE p[1]) \div p[3],
     d |-> Abs(p[2]) \div p[3]]

Num(n, d) == Strict(Reduced, <<n, d, GcdPair(<<Abs(n), Abs(d)>>)>>)

IsNull(x) == x.k = "nan"

\* x - y of float64
FSub(x, y) ==
    IF x.k = "nan" \/ y.k = "nan" THEN NaN
    ELSE IF x.k = "inf" THEN (IF y.k = "inf" /\ y.n = x.n THEN NaN ELSE x)
    ELSE IF y.k = "inf" THEN (IF y.n > 0 THEN NegInf ELSE PosInf)
    ELSE Num(x.n * y.d - y.n * x.d, x.d * y.d)

\* x * y of float64, y finite and positive
FMul(x, y) ==
    IF x.k = "nan" THEN NaN
    ELSE IF x.k = "inf" THEN x
    ELSE Num(x.n * y.n, x.d * y.d)

\* x / y of float64 for finite or NaN operands: a division by zero does not
\* raise, it gives NaN for 0/0 and a signed infinity otherwise
FDiv(x, y) ==
    IF x.k = "nan" \/ y.k = "nan" THEN NaN
    ELSE IF y.n = 0 THEN (IF x.n = 0 THEN NaN ELSE IF x.n > 0 THEN PosInf ELSE NegInf)
    ELSE Num(x.n * y.d, x.d * y.n)

One == Num(1, 1)
Hundred == Num(100, 1)

(***************************************************************************)
(* DataFrame operations of compute_pct_changes and build_changes           *)
(***************************************************************************)
NRows(df) == Len(df.index)

\* a shift that fills the first rows with 0.0 instead of NaN
ShiftFillZero(df, lag) ==
    [index |-> df.index,
     cols  |-> [c \in DOMAIN df.cols |->
                   [t \in 1..NRows(df) |-> IF t > lag THEN df.cols[c][t - lag]
                                            ELSE Num(0, 1)]]]

\* df.shift(lag): row t holds the value of row t - lag, the first lag rows NaN
Shift(df, lag) ==
    [index |-> df.index,
     cols  |-> [c \in DOMAIN df.cols |->
                   [t \in 1..NRows(df) |-> IF t > lag THEN df.cols[c][t - lag] ELSE NaN]]]

\* df[labels]
SelectCols(df, labels) ==
    [index |-> df.index, cols |-> [c \in labels |-> df.cols[c]]]

\* df1 - df2 and df1 / df2 of frames with the same index and columns
DfSub(df1, df2) ==
    [index |-> df1.index,
     cols  |-> [c \in DOMAIN df1.cols |->
                   [t \in 1..NRows(df1) |-> FSub(df1.cols[c][t], df2.cols[c][t])]]]

DfDiv(df1, df2) ==
    [index |-> df1.index,
     cols  |-> [c \in DOMAIN df1.cols |->
                   [t \in 1..NRows(df1) |-> FDiv(df1.cols[c][t], df2.cols[c][t])]]]

\* df - x and df * x for a scalar x
DfSubScalar(df, x) ==
    [index |-> df.index,
     cols  |-> [c \in DOMAIN df.cols |-> [t \in 1..NRows(df) |-> FSub(df.cols[c][t], x)]]]

DfMulScalar(df, x) ==
    [index |-> df.index,
     cols  |-> [c \in DOMAIN df.cols |-> [t \in 1..NRows(df) |-> FMul(df.cols[c][t], x)]]]

\* the ratio in percent, without the "- 1.0"
PctRatio(df, lagged) == DfMulScalar(DfDiv(df, lagged), Hundred)

\* (df / df.shift(lag) - 1.0) * 100.0
PctChange(df, lagged) == DfMulScalar(DfSubScalar(DfDiv(df, lagged), One), Hundred)

\* compute_pct_changes(pivot_df): the tables mom and yoy
compute_pct_changes(pivot) ==
    [MoM_pct |-> PctChange(pivot, Shift(pivot, MoMLag)),
     YoY_pct |-> PctChange(pivot, Shift(pivot, YoYLag))]

\* labels[sid] of the labels main built
LabelsOf(smap) == {LabelGet(smap, smap[i][1]) : i \in 1..Len(smap)}

\* vtype_by_col = {labels[sid]: vtypes[sid] for sid in series_ids}: the kind
\* of the last series id whose label is lab
VtypeByCol(smap) ==
    CHOOSE out \in
        {[lab \in {labs[i] : i \in 1..Len(labs)} |->
             VtypeGet(smap,
                      smap[CHOOSE i \in 1..Len(labs) :
                              /\ labs[i] = lab
                              /\ \A j \in (i + 1)..Len(labs) : labs[j] # lab][1])] :
           labs \in {[i \in 1..Len(smap) |-> LabelGet(smap, smap[i][1])] \o <<>>}} : TRUE

\* the kind test left out: every declared column of the pivot
ColsOfAnyKind(pivot, vtype_by_col, kind) ==
    {c \in DOMAIN vtype_by_col : c \in DOMAIN pivot.cols}

\* [c for c, t in vtype_by_col.items() if t == kind and c in pivot_level.columns]
ColsOfKind(pivot, vtype_by_col, kind) ==
    {c \in DOMAIN vtype_by_col : vtype_by_col[c] = kind /\ c \in DOMAIN pivot.cols}

LevelTables == {"MoM_abs_level", "MoM_pct_level", "YoY_abs_level", "YoY_pct_level"}
RateTables == {"MoM_pp_rate", "YoY_pp_rate"}

\* the table build_changes stores under name
ChangeTable(pivot, vtype_by_col, name) ==
    LET level_cols == ColsOfKind(pivot, vtype_by_col, "level")
        rate_cols  == ColsOfKind(pivot, vtype_by_col, "rate")
        lag1  == Shift(pivot, MoMLag)
        lag12 == Shift(pivot, YoYLag)
    IN  CASE name = "MoM_abs_level" ->
               DfSub(SelectCols(pivot, level_cols), SelectCols(lag1, level_cols))
          [] name = "MoM_pct_level" ->
               PctChange(SelectCols(pivot, level_cols), SelectCols(lag1, level_cols))
          [] name = "YoY_abs_level" ->
               DfSub(SelectCols(pivot, level_cols), SelectCols(lag12, level_cols))
          [] name = "YoY_pct_level" ->
               PctChange(SelectCols(pivot, level_cols), SelectCols(lag12, level_cols))
          [] name = "MoM_pp_rate" ->
               DfSub(SelectCols(pivot, rate_cols), SelectCols(lag1, rate_cols))
          [] name = "YoY_pp_rate" ->
               DfSub(SelectCols(pivot, rate_cols), SelectCols(lag12, rate_cols))

\* build_changes(pivot_level, vtype_by_col): the dict out
build_changes(pivot, vtype_by_col) ==
    [name \in (IF ColsOfKind(pivot, vtype_by_col, "level") # {} THEN LevelTables ELSE {})
              \cup (IF ColsOfKind(pivot, vtype_by_col, "rate") # {} THEN RateTables ELSE {})
       |-> ChangeTable(pivot, vtype_by_col, name)]

(***************************************************************************)
(* The change tables on their own: specification SpecChanges               *)
(***************************************************************************)
\* the labels of the two catalog entries
LabelA == 1001
LabelB == 1002

\* the month ends of n consecutive months from January 2000 (START)
MonthIndex(n) ==
    [t \in 1..n |-> <<2000 + ((t - 1) \div 12), ((t - 1) % 12) + 1,
                      DaysInMonth(2000 + ((t - 1) \div 12), ((t - 1) % 12) + 1)>>] \o <<>>

\* a column of n rows: 100 + 10 t, but for the rows a patch overrides
BaseA(t) == Num(100 + 10 * t, 1)
BaseB(t) == Num(40 + t, 10)

PatchValue(patch, t) == (CHOOSE e \in patch : e[1] = t)[2]

ColumnA(n, patch) ==
    [t \in 1..n |-> IF \E e \in patch : e[1] = t THEN PatchValue(patch, t) ELSE BaseA(t)]
    \o <<>>

ColumnB(n) == [t \in 1..n |-> BaseB(t)] \o <<>>

\* no row overridden, one row, or two rows that are 1 or 12 rows apart
Patches(n, values) ==
    {{}} \cup {{<<p, v>>} : p \in 1..n, v \in values}
         \cup {{<<pq[1], v>>, <<pq[2], w>>} :
                 pq \in {x \in (1..n) \X (1..n) :
                            x[2] = x[1] + MoMLag \/ x[2] = x[1] + YoYLag},
                 v \in values, w \in values}

Zero == Num(0, 1)

\* the pivots with the column of label A only: every cell holds a value
PivotsA ==
    UNION {{[index |-> MonthIndex(n), cols |-> (LabelA :> ColumnA(n, patch))] :
              patch \in Patches(n, {Zero})} : n \in 1..MaxRows}

\* the pivots with both columns: a cell of A may be missing (NaN) where B has
\* a value, column A keeps at least one value
PivotsAB(rows) ==
    UNION {{[index |-> MonthIndex(n),
             cols |-> (LabelA :> ColumnA(n, patch) @@ LabelB :> ColumnB(n))] :
              patch \in {q \in Patches(n, {Zero, NaN}) :
                            \E t \in 1..n : ~(<<t, NaN>> \in q)}} : n \in rows}

\* the pivots of the two scenarios: levels 100, 110, 121 and rates 4.0, 4.2, 4.1
ExampleLevel ==
    [index |-> MonthIndex(3), cols |-> (LabelA :> <<Num(100, 1), Num(110, 1), Num(121, 1)>>)]
ExampleRate ==
    [index |-> MonthIndex(3), cols |-> (LabelA :> <<Num(40, 10), Num(42, 10), Num(41, 10)>>)]

\* the pivot of a record set the window left empty
EmptyPivot == [index |-> <<>>, cols |-> <<>>]

Entry(sid, lab, kind) == <<sid, lab, kind>>

\* the employment catalogs: A alone, A and B of each kind, and two series
\* ids that share the label A
ChangeCatalogs ==
    {<<Entry(1, LabelA, ka)>> : ka \in {"level", "rate"}}
    \cup {<<Entry(1, LabelA, ka), Entry(2, LabelB, kb)>> :
            ka \in {"level", "rate"}, kb \in {"level", "rate"}}
    \cup {<<Entry(1, LabelA, "rate"), Entry(2, LabelA, "level")>>}

InitChanges ==
    /\ script \in Scripts
    /\ series_map \in (IF script = "emp" THEN ChangeCatalogs
                       ELSE {<<Entry(1, LabelA, "level"), Entry(2, LabelB, "level")>>})
    /\ pivot_level \in ({EmptyPivot, ExampleLevel, ExampleRate} \cup PivotsA
                        \cup PivotsAB(1..MaxRows))
    /\ pc = "changes_call"
    /\ b = 0
    /\ attempt = 0
    /\ last_err = NoError
    /\ data = NoData
    /\ calllog = <<>>
    /\ calls = <<>>
    /\ posted = <<>>
    /\ slept = <<>>
    /\ sym = 0
    /\ gold = NoGold
    /\ frames = <<>>
    /\ failed = <<>>
    /\ code = 0
    /\ long_frames = <<>>
    /\ df_long = <<>>
    /\ long_df = <<>>
    /\ error = NoError
    /\ changes = <<>>
    /\ Defaults

\* mom_pct, yoy_pct = compute_pct_changes(pivot_level)    (CPI, PPI)
ComputePctChanges ==
    /\ pc = "changes_call"
    /\ script \in {"cpi", "ppi"}
    /\ changes' = compute_pct_changes(pivot_level)
    /\ pc' = "changes_done"
    /\ UNCHANGED <<script, posted, slept, settings, market, output, series_map, b, attempt, last_err, data, calllog, calls,
                   long_frames, df_long, long_df, error, pivot_level>>

\* changes = build_changes(pivot_level, vtype_by_col)     (employment)
BuildChanges ==
    /\ pc = "changes_call"
    /\ script = "emp"
    /\ \E vtype_by_col \in {VtypeByCol(series_map) @@ <<>>} :
          \E out \in {build_changes(pivot_level, vtype_by_col)} : changes' = out
    /\ pc' = "changes_done"
    /\ UNCHANGED <<script, posted, slept, settings, market, output, series_map, b, attempt, last_err, data, calllog, calls,
                   long_frames, df_long, long_df, error, pivot_level>>

NextChanges == ComputePctChanges \/ BuildChanges

SpecChanges == InitChanges /\ [][NextChanges]_vars

(***************************************************************************)
(* Claims about the change tables (specification SpecChanges)              *)
(***************************************************************************)
\* the pivot value of label c at row t
V(c, t) == pivot_level.cols[c][t]

Present(x) == x.k = "num"

\* the kinds the catalog declares for label lab
KindsOf(lab) == {series_map[i][3] : i \in {j \in 1..Len(series_map) : series_map[j][2] = lab}}

\* the lag of a change table: 1 for the MoM tables, 12 for the YoY tables
LagOf(name) ==
    IF name \in {"MoM_pct", "MoM_abs_level", "MoM_pct_level", "MoM_pp_rate"} THEN 1 ELSE 12

PctTables == {"MoM_pct", "YoY_pct", "MoM_pct_level", "YoY_pct_level"}

\* the cell is the number x - y
IsDifference(cell, x, y) ==
    /\ cell.k = "num"
    /\ cell.n * (x.d * y.d) = cell.d * (x.n * y.d - y.n * x.d)

\* the cell is the number (x / y - 1) * 100, for y # 0
IsPercentChange(cell, x, y) ==
    /\ cell.k = "num"
    /\ cell.n * (y.n * x.d) = cell.d * 100 * (x.n * y.d - y.n * x.d)

\* table name holds column c, and at every row t past the lag where the
\* value and the lagged value are present its cell is the difference
HoldsDifferences(name, c) ==
    /\ name \in DOMAIN changes
    /\ c \in DOMAIN changes[name].cols
    /\ \A t \in (LagOf(name) + 1)..NRows(pivot_level) :
          (Present(V(c, t)) /\ Present(V(c, t - LagOf(name))))
          => IsDifference(changes[name].cols[c][t], V(c, t), V(c, t - LagOf(name)))

\* the same for the percent change, where the lagged value is not zero
HoldsPercentChanges(name, c) ==
    /\ name \in DOMAIN changes
    /\ c \in DOMAIN changes[name].cols
    /\ \A t \in (LagOf(name) + 1)..NRows(pivot_level) :
          (Present(V(c, t)) /\ Present(V(c, t - LagOf(name))) /\ V(c, t - LagOf(name)).n # 0)
          => IsPercentChange(changes[name].cols[c][t], V(c, t), V(c, t - LagOf(name)))

\* C7: for every label declared kind=level and every row t at or after the
\* lag where both values are present, build_changes gives
\* MoM_abs = v[t] - v[t-1], MoM_pct = (v[t]/v[t-1] - 1)*100,
\* YoY_abs = v[t] - v[t-12], YoY_pct = (v[t]/v[t-12] - 1)*100 (the percent
\* stated where the lagged value is not zero); 100, 110, 121 give MoM_pct
\* null, 10, 10 and MoM_abs null, 10, 11; compute_pct_changes of CPI/PPI
\* gives the same MoM_pct and YoY_pct for every column.
C7_LevelChanges ==
    pc = "changes_done"
    => /\ script = "emp"
          => \A c \in DOMAIN pivot_level.cols :
                KindsOf(c) = {"level"}
                => /\ HoldsDifferences("MoM_abs_level", c)
                   /\ HoldsDifferences("YoY_abs_level", c)
                   /\ HoldsPercentChanges("MoM_pct_level", c)
                   /\ HoldsPercentChanges("YoY_pct_level", c)
       /\ script \in {"cpi", "ppi"}
          => \A c \in DOMAIN pivot_level.cols :
                /\ HoldsPercentChanges("MoM_pct", c)
                /\ HoldsPercentChanges("YoY_pct", c)
       /\ (script = "emp" /\ pivot_level = ExampleLevel /\ KindsOf(LabelA) = {"level"})
          => /\ changes["MoM_pct_level"].cols[LabelA] = <<NaN, Num(10, 1), Num(10, 1)>>
             /\ changes["MoM_abs_level"].cols[LabelA] = <<NaN, Num(10, 1), Num(11, 1)>>
       /\ (script \in {"cpi", "ppi"} /\ pivot_level = ExampleLevel)
          => changes["MoM_pct"].cols[LabelA] = <<NaN, Num(10, 1), Num(10, 1)>>

\* build_changes ran on fourteen months of a level column: the last row
\* holds a year-over-year change
C7_Witness ==
    /\ pc = "changes_done"
    /\ script = "emp"
    /\ series_map = <<Entry(1, LabelA, "level")>>
    /\ NRows(pivot_level) = 14
    /\ \A t \in 1..14 : V(LabelA, t) = BaseA(t)
    /\ changes["YoY_abs_level"].cols[LabelA][14] = Num(120, 1)
    /\ changes["YoY_pct_level"].cols[LabelA][14] = Num(100, 1)
    /\ changes["MoM_abs_level"].cols[LabelA][14] = Num(10, 1)

\* C8: in the employment script a label declared kind=rate appears only in
\* MoM_pp_rate and YoY_pp_rate, with value[t] - value[t-lag], and never in
\* a *_pct_level or *_abs_level table; a label declared kind=level never
\* appears in a *_pp_rate table; rates 4.0, 4.2, 4.1 give MoM_pp null,
\* 0.2, -0.1. Stated for labels the catalog declares with one kind.
C8_RatePointDifferences ==
    (pc = "changes_done" /\ script = "emp")
    => /\ \A lab \in LabelsOf(series_map) :
            /\ KindsOf(lab) = {"rate"}
               => /\ \A name \in DOMAIN changes :
                        lab \in DOMAIN changes[name].cols => name \in RateTables
                  /\ lab \in DOMAIN pivot_level.cols
                     => /\ HoldsDifferences("MoM_pp_rate", lab)
                        /\ HoldsDifferences("YoY_pp_rate", lab)
            /\ KindsOf(lab) = {"level"}
               => \A name \in DOMAIN changes :
                     lab \in DOMAIN changes[name].cols => name \in LevelTables
       /\ (pivot_level = ExampleRate /\ KindsOf(LabelA) = {"rate"})
          => changes["MoM_pp_rate"].cols[LabelA] = <<NaN, Num(2, 10), Num(0 - 1, 10)>>

\* a rate column next to a level column: the rate is in the two pp tables
\* only, the level in the four level tables only
C8_Witness ==
    /\ pc = "changes_done"
    /\ script = "emp"
    /\ series_map = <<Entry(1, LabelA, "level"), Entry(2, LabelB, "rate")>>
    /\ NRows(pivot_level) = 13
    /\ DOMAIN changes = LevelTables \cup RateTables
    /\ DOMAIN changes["MoM_pp_rate"].cols = {LabelB}
    /\ DOMAIN changes["MoM_pct_level"].cols = {LabelA}
    /\ changes["MoM_pp_rate"].cols[LabelB][2] = Num(1, 10)
    /\ changes["YoY_pp_rate"].cols[LabelB][13] = Num(12, 10)

Min(x, y) == IF x < y THEN x ELSE y

\* C9: every change table has exactly the row index of the pivot table and,
\* in every column, its first min(lag, rows) rows are null; a pivot with
\* fewer than lag rows gives a table that is null in every cell.
C9_FirstLagRowsNull ==
    pc = "changes_done"
    => \A name \in DOMAIN changes :
          /\ changes[name].index = pivot_level.index
          /\ \A c \in DOMAIN changes[name].cols :
                /\ DOMAIN changes[name].cols[c] = 1..NRows(pivot_level)
                /\ \A t \in 1..Min(LagOf(name), NRows(pivot_level)) :
                      changes[name].cols[c][t] = NaN
                /\ NRows(pivot_level) < LagOf(name)
                   => \A t \in 1..NRows(pivot_level) : changes[name].cols[c][t] = NaN

\* eleven months: the MoM table has values from the second row on, the YoY
\* table is null throughout
C9_Witness ==
    /\ pc = "changes_done"
    /\ script = "cpi"
    /\ NRows(pivot_level) = 11
    /\ changes["MoM_pct"].cols[LabelA][1] = NaN
    /\ Present(changes["MoM_pct"].cols[LabelA][2])
    /\ \A t \in 1..11 : changes["YoY_pct"].cols[LabelA][t] = NaN

\* C10: in the percent-change tables, whenever the lagged value
\* value[t-lag] is exactly 0 the cell is null, never an infinite value and
\* never a number.
C10_ZeroLagIsNull ==
    pc = "changes_done"
    => \A name \in DOMAIN changes \cap PctTables :
          \A c \in DOMAIN changes[name].cols :
             \A t \in (LagOf(name) + 1)..NRows(pivot_level) :
                V(c, t - LagOf(name)) = Zero => changes[name].cols[c][t] = NaN

(***************************************************************************)
(* main: the window cut and the pivot                                      *)
(***************************************************************************)
\* pd.Period(ym, freq="M").to_timestamp(how="end"): the last nanosecond of
\* the month ym, given as the day that nanosecond lies in
EndOfPeriod(ym) == <<ym[1], ym[2], DaysInMonth(ym[1], ym[2])>>

\* long_df[(PeriodEnd >= start_cut) & (PeriodEnd <= end_cut)] when END is
\* set, long_df[PeriodEnd >= start_cut] otherwise. A PeriodEnd is the
\* midnight that begins its day and a cut is the last nanosecond of its day:
\* PeriodEnd >= cut holds from the day after the cut on, PeriodEnd <= cut
\* up to the day of the cut.
CutWindow(rows, start, end) ==
    IF end # NoEnd
    THEN SelectSeq(rows, LAMBDA r : /\ DateLess(EndOfPeriod(start), r.PeriodEnd)
                                    /\ ~DateLess(EndOfPeriod(end), r.PeriodEnd))
    ELSE SelectSeq(rows, LAMBDA r : DateLess(EndOfPeriod(start), r.PeriodEnd))

\* the dates in increasing order
SortedDates(S) ==
    [p \in 1..Cardinality(S) |->
        CHOOSE d \in S : Cardinality({e \in S : DateLess(e, d)}) = p - 1] \o <<>>

\* the sum of the values (in tenths) of the rows of the cell (d, lab) among
\* the first n rows
RECURSIVE CellSum(_, _, _, _)
CellSum(rows, d, lab, n) ==
    IF n = 0 THEN 0
    ELSE CellSum(rows, d, lab, n - 1)
         + (IF rows[n].PeriodEnd = d /\ rows[n].label = lab THEN rows[n].value ELSE 0)

\* aggfunc of pivot_table is the mean by default: the mean of the values of
\* the rows of the cell, NaN for a cell without a row
MeanCell(rows, d, lab) ==
    LET cell == {i \in 1..Len(rows) : rows[i].PeriodEnd = d /\ rows[i].label = lab}
    IN  IF cell = {} THEN NaN
        ELSE Num(CellSum(rows, d, lab, Len(rows)), 10 * Cardinality(cell))

\* long_df.pivot_table(index="PeriodEnd", columns="label", values="value")
\*        .sort_index(): a row per date and a column per label of the rows
pivot_table(rows) ==
    LET index == SortedDates({rows[i].PeriodEnd : i \in 1..Len(rows)})
    IN  [index |-> index,
         cols  |-> [lab \in {rows[i].label : i \in 1..Len(rows)} |->
                      [t \in 1..Len(index) |-> MeanCell(rows, index[t], lab)] \o <<>>]]

\* 4) the date cut: the CPI and employment scripts only
Cut ==
    /\ pc = "fetched"
    /\ script \in {"cpi", "emp"}
    /\ long_df' = CutWindow(long_df, START, END)
    /\ pc' = "cut"
    /\ UNCHANGED <<script, posted, slept, settings, market, output, series_map, b, attempt, last_err, data,
                   calllog, calls, long_frames, df_long, error, pivot_level, changes>>

\* 5) the pivot: the PPI script pivots what pd.concat returned
Pivot ==
    /\ \/ pc = "cut"
       \/ pc = "fetched" /\ script = "ppi"
    /\ \E p \in {pivot_table(long_df)} : pivot_level' = p
    /\ pc' = "changes_call"
    /\ UNCHANGED <<script, posted, slept, settings, market, output, series_map, b, attempt, last_err, data,
                   calllog, calls, long_frames, df_long, long_df, error, changes>>

(***************************************************************************)
(* The cut and the pivot on their own: specification SpecPivot             *)
(***************************************************************************)
\* the months the provider has records for: May, June, July and September
\* 2010 (no record for August) and January 2011
ProviderMonths == <<<<2010, 5>>, <<2010, 6>>, <<2010, 7>>, <<2010, 9>>, <<2011, 1>>>>

\* the frame parse_bls_result returns for one batch: series 1 with the
\* provider months D1 and series 2 with D2, the value of series sid in the
\* k-th month being 100.0 * sid + k
BatchFrame(scr, smap, D1, D2) ==
    LET Row(sid, k) ==
            MakeRow(scr, smap, sid, [PeriodEnd |-> EndOfPeriod(ProviderMonths[k]),
                                     value |-> 1000 * sid + 10 * k])
        Nth(D, i) == CHOOSE k \in D : Cardinality({j \in D : j < k}) = i - 1
    IN  SortRows([i \in 1..Cardinality(D1) |-> Row(1, Nth(D1, i))]
                 \o [i \in 1..Cardinality(D2) |-> Row(2, Nth(D2, i))])

\* two series with a label each, and two series ids that share one label
PivotCatalogs ==
    {<<Entry(1, LabelA, "level"), Entry(2, LabelB, "rate")>>,
     <<Entry(1, LabelA, "level"), Entry(2, LabelA, "level")>>}

InitPivot ==
    /\ script \in Scripts
    /\ series_map \in PivotCatalogs
    /\ START \in {DefaultStart(script), <<2010, 6>>}
    /\ END \in {NoEnd, <<2010, 7>>}
    /\ csv_file = NoCsv
    /\ \E D1 \in SUBSET (1..Len(ProviderMonths)) : \E D2 \in SUBSET (1..2) :
          long_df = BatchFrame(script, series_map, D1, D2)
    /\ pc = "fetched"
    /\ b = 0
    /\ attempt = 0
    /\ last_err = NoError
    /\ data = NoData
    /\ calllog = <<>>
    /\ calls = <<>>
    /\ posted = <<>>
    /\ slept = <<>>
    /\ sym = 0
    /\ gold = NoGold
    /\ frames = <<>>
    /\ failed = <<>>
    /\ code = 0
    /\ long_frames = <<>>
    /\ df_long = <<>>
    /\ error = NoError
    /\ pivot_level = NoPivot
    /\ changes = <<>>
    /\ NoOutput

NextPivot == Cut \/ Pivot \/ ComputePctChanges \/ BuildChanges

SpecPivot == InitPivot /\ [][NextPivot]_vars

(***************************************************************************)
(* Claims about the cut and the pivot (specification SpecPivot)            *)
(***************************************************************************)
\* two records of long_df have the same (PeriodEnd, label) pair
HasDuplicatePair(rows) ==
    \E i \in 1..Len(rows) : \E j \in (i + 1)..Len(rows) :
        rows[i].PeriodEnd = rows[j].PeriodEnd /\ rows[i].label = rows[j].label

\* C11: when the record set holds two records with the same (PeriodEnd,
\* label) pair, the pivot step fails the run; the pivot never completes on
\* such a record set, combining the two values into one cell.
C11_DuplicatePairFailsRun ==
    pc \in {"changes_call", "changes_done"} => ~HasDuplicatePair(long_df)

\* the (PeriodEnd, label, value) triples of the records, and those read back
\* from the non-null cells of the pivot
RecordTriples(rows) ==
    {<<rows[i].PeriodEnd, rows[i].label, Num(rows[i].value, 10)>> : i \in 1..Len(rows)}

PivotTriples(pivot) ==
    {<<pivot.index[c[1]], c[2], pivot.cols[c[2]][c[1]]>> :
        c \in {x \in (1..NRows(pivot)) \X (DOMAIN pivot.cols) :
                  ~IsNull(pivot.cols[x[2]][x[1]])}}

\* C12: for every record set reaching the pivot step, the non-null cells of
\* the pivot read back as (PeriodEnd, label, value) triples are exactly the
\* triples of the input records, the pivot index is strictly increasing, and
\* a (date, label) pair with no record is null.
C12_PivotRoundTrip ==
    pc \in {"changes_call", "changes_done"}
    => /\ PivotTriples(pivot_level) = RecordTriples(long_df)
       /\ \A t \in 1..(NRows(pivot_level) - 1) :
             DateLess(pivot_level.index[t], pivot_level.index[t + 1])
       /\ \A t \in 1..NRows(pivot_level) : \A lab \in DOMAIN pivot_level.cols :
             (~\E i \in 1..Len(long_df) : /\ long_df[i].PeriodEnd = pivot_level.index[t]
                                          /\ long_df[i].label = lab)
             => pivot_level.cols[lab][t] = NaN

\* the date d is inside the configured window: on or after the month end of
\* START and, when END is set, on or before the month end of END
InWindow(d) ==
    /\ ~DateLess(d, <<START[1], START[2], LastDay(START[1], START[2])>>)
    /\ END # <<>> => ~DateLess(<<END[1], END[2], LastDay(END[1], END[2])>>, d)

\* C13: in each of the three scripts, every record that main pivots and
\* writes to Raw_Long and every row of the pivot table has a PeriodEnd
\* inside the configured window; records for earlier months of the start
\* year or later months of the end year are removed before pivoting.
C13_RecordsInsideWindow ==
    pc \in {"changes_call", "changes_done"}
    => /\ \A i \in 1..Len(long_df) : InWindow(long_df[i].PeriodEnd)
       /\ \A t \in 1..NRows(pivot_level) : InWindow(pivot_level.index[t])

\* the number of calendar months from date d1 to date d2
MonthsFrom(d1, d2) == (12 * d2[1] + d2[2]) - (12 * d1[1] + d1[2])

\* C19: every month-over-month value at PeriodEnd d is computed against
\* the value of the preceding calendar month and every year-over-year value
\* against the value 12 calendar months before d, also when the pivot index
\* has a gap: a cell that holds a change was computed against the row that
\* lies exactly lag calendar months before its own.
C19_CalendarLag ==
    pc = "changes_done"
    => \A name \in DOMAIN changes : \A c \in DOMAIN changes[name].cols :
          \A t \in 1..NRows(pivot_level) :
             ~IsNull(changes[name].cols[c][t])
             => /\ t > LagOf(name)
                /\ MonthsFrom(pivot_level.index[t - LagOf(name)], pivot_level.index[t])
                     = LagOf(name)

(***************************************************************************)
(* read_series_map                                                         *)
(***************************************************************************)
\* a lower() that leaves the case of the text as it is
LowerNone(text) == text

\* str.lower() and str.strip() on the texts of the modelled mapping files
Lower(text) ==
    CASE text = "Series_ID" -> "series_id"
      [] text = "LABEL" -> "label"
      [] text = "Value_Type" -> "value_type"
      [] text = "LEVEL" -> "level"
      [] text = "Rate" -> "rate"
      [] OTHER -> text

Strip(text) == IF text = " Rate " THEN "Rate" ELSE text

\* the loop over df.iterrows() stops at the last row that raises
LastOf(S) == CHOOSE i \in S : \A j \in S : j <= i

\* the loop over df.iterrows() raises at the first row of S, in file order
FirstOf(S) == CHOOSE i \in S : \A j \in S : i <= j

\* DEFAULT_SERIES_MAP: 2 entries (CPI), 4 (PPI), 10 with their kinds
\* (employment); entry i has the series id 900 + i and the label 1900 + i
DEFAULT_SERIES_MAP(scr) ==
    IF scr = "emp"
    THEN [i \in 1..10 |-> <<900 + i, 1900 + i, IF i \in {6, 7, 8} THEN "rate" ELSE "level">>]
    ELSE [i \in 1..(IF scr = "cpi" THEN 2 ELSE 4) |-> <<900 + i, 1900 + i, None>>]

\* read_series_map(csv_path): [ok, value, error]; ok = FALSE is the raise
read_series_map(scr, file) ==
    LET required == IF scr = "emp" THEN {"series_id", "label", "value_type"}
                    ELSE {"series_id", "label"}
        lowered == [i \in 1..Len(file.columns) |-> Lower(file.columns[i])]
        Cell(row, name) == row[CHOOSE i \in 1..Len(lowered) : lowered[i] = name]
        Vtype(row) == Lower(Strip(Cell(row, "value_type")))
        bad == {i \in 1..Len(file.rows) : Vtype(file.rows[i]) \notin {"level", "rate"}}
        Raise(type, msg) ==
            [ok |-> FALSE, value |-> <<>>,
             error |-> [type |-> type, attempt |-> 0, msg |-> msg]]
    IN  IF ~file.exists
        THEN [ok |-> TRUE, value |-> DEFAULT_SERIES_MAP(scr), error |-> NoError]
        ELSE IF file.columns = <<>>
        THEN Raise("EmptyDataError", <<"No columns to parse from file">>)
        ELSE IF ~(required \subseteq {lowered[i] : i \in 1..Len(lowered)})
        THEN Raise("ValueError", <<"must have columns">>)
        ELSE IF scr = "emp" /\ bad # {}
        THEN Raise("ValueError",
                   <<"value_type must be 'level' or 'rate'",
                     Vtype(file.rows[FirstOf(bad)]),
                     Cell(file.rows[FirstOf(bad)], "series_id")>>)
        ELSE IF file.rows = <<>>
        THEN Raise("ValueError", <<"is empty">>)
        ELSE [ok |-> TRUE,
              value |-> [i \in 1..Len(file.rows) |->
                           <<Cell(file.rows[i], "series_id"), Cell(file.rows[i], "label"),
                             IF scr = "emp" THEN Vtype(file.rows[i]) ELSE None>>],
              error |-> NoError]

(***************************************************************************)
(* read_series_map on its own: specification SpecCatalog                   *)
(***************************************************************************)
\* the mapping files: none, a file of zero bytes, and files with a header
\* line and up to MaxCsvRows data rows; row k holds the series id k, the
\* label 1000 + k and a value_type cell
CsvFiles ==
    LET VtypeTexts == {"level", "rate", " Rate ", "LEVEL", "ratio"}
        Headers ==
            {<<"series_id", "label", "value_type">>, <<"Series_ID", "LABEL", "Value_Type">>,
             <<"series_id", "label">>, <<"label", "value_type">>}
        CsvFile(columns, vtypes) ==
            [exists  |-> TRUE,
             columns |-> columns,
             rows    |-> [k \in 1..Len(vtypes) |->
                            [i \in 1..Len(columns) |->
                                CASE columns[i] \in {"series_id", "Series_ID"} -> k
                                  [] columns[i] \in {"label", "LABEL"} -> 1000 + k
                                  [] OTHER -> vtypes[k]] \o <<>>] \o <<>>]
    IN  {NoCsv, CsvFile(<<>>, <<>>)}
        \cup {CsvFile(h, v) : h \in Headers, v \in ListsUpTo(VtypeTexts, MaxCsvRows)}

InitCatalog ==
    /\ script \in Scripts
    /\ csv_file \in CsvFiles
    /\ START = DefaultStart(script)
    /\ END = NoEnd
    /\ series_map = <<>>
    /\ pc = "start"
    /\ b = 0
    /\ attempt = 0
    /\ last_err = NoError
    /\ data = NoData
    /\ calllog = <<>>
    /\ calls = <<>>
    /\ posted = <<>>
    /\ slept = <<>>
    /\ sym = 0
    /\ gold = NoGold
    /\ frames = <<>>
    /\ failed = <<>>
    /\ code = 0
    /\ long_frames = <<>>
    /\ df_long = <<>>
    /\ long_df = <<>>
    /\ error = NoError
    /\ pivot_level = NoPivot
    /\ changes = <<>>
    /\ NoOutput

\* 1) series_map = read_series_map(SERIES_CSV)
ReadSeriesMap ==
    /\ pc = "start"
    /\ \E r \in {read_series_map(script, csv_file)} :
       IF r.ok
       THEN series_map' = r.value /\ pc' = "loop" /\ UNCHANGED error
       ELSE error' = r.error /\ pc' = "raised" /\ UNCHANGED series_map
    /\ UNCHANGED <<script, posted, slept, settings, market, output, b, attempt, last_err, data, calllog, calls,
                   long_frames, df_long, long_df, pivot_level, changes>>

NextCatalog == ReadSeriesMap

SpecCatalog == InitCatalog /\ [][NextCatalog]_vars

(***************************************************************************)
(* Claims about read_series_map (specification SpecCatalog)                *)
(***************************************************************************)
\* the spellings of a column name that differ in case only
Spellings(name) ==
    CASE name = "series_id" -> {"series_id", "Series_ID"}
      [] name = "label" -> {"label", "LABEL"}
      [] name = "value_type" -> {"value_type", "Value_Type"}

\* the columns the script requires
RequiredColumns == IF script = "emp" THEN {"series_id", "label", "value_type"}
                   ELSE {"series_id", "label"}

HasColumn(name) ==
    \E i \in 1..Len(csv_file.columns) : csv_file.columns[i] \in Spellings(name)

\* the cell of data row k in the column name
CellOf(k, name) ==
    csv_file.rows[k][CHOOSE i \in 1..Len(csv_file.columns) :
                        csv_file.columns[i] \in Spellings(name)]

\* the data rows whose value_type is neither level nor rate, whatever the
\* case and the surrounding blanks
OtherKindRows ==
    {k \in 1..Len(csv_file.rows) :
        CellOf(k, "value_type") \notin {"level", "rate", " Rate ", "LEVEL"}}

\* C14: read_series_map returns DEFAULT_SERIES_MAP if and only if the
\* mapping file does not exist; for a file that exists it returns one entry
\* per data row in file order, the column names matched without regard to
\* case, or it raises; it raises when a required column is missing or when
\* the file has no data row, and never falls back to the default list.
C14_DefaultOnlyWithoutFile ==
    pc # "start"
    => /\ (pc = "loop" /\ series_map = DEFAULT_SERIES_MAP(script)) <=> ~csv_file.exists
       /\ (csv_file.exists /\ pc = "loop")
          => /\ Len(series_map) = Len(csv_file.rows)
             /\ \A k \in 1..Len(series_map) :
                   /\ series_map[k][1] = CellOf(k, "series_id")
                   /\ series_map[k][2] = CellOf(k, "label")
       /\ (csv_file.exists /\ pc # "loop") => pc = "raised" /\ series_map = <<>>
       /\ (csv_file.exists
           /\ ((\E name \in RequiredColumns : ~HasColumn(name)) \/ csv_file.rows = <<>>))
          => pc = "raised"
       /\ (csv_file.exists /\ script # "emp" /\ csv_file.rows # <<>>
           /\ \A name \in RequiredColumns : HasColumn(name))
          => pc = "loop"

\* the CPI script read a file of three data rows whose header is spelled in
\* capitals
C14_Witness ==
    /\ pc = "loop"
    /\ script = "cpi"
    /\ csv_file.columns = <<"Series_ID", "LABEL", "Value_Type">>
    /\ series_map = <<<<1, 1001, None>>, <<2, 1002, None>>, <<3, 1003, None>>>>

\* C15: in the employment script every entry of the catalog that
\* read_series_map returns has the kind "level" or "rate"; if a row of the
\* mapping file has another value_type, the load raises an error that names
\* the series id of the first such row in file order, and no partial catalog
\* is returned.
C15_KindsValidated ==
    (pc # "start" /\ script = "emp")
    => /\ pc = "loop" => \A k \in 1..Len(series_map) : series_map[k][3] \in {"level", "rate"}
       /\ (csv_file.exists /\ (\A name \in RequiredColumns : HasColumn(name))
           /\ OtherKindRows # {})
          => /\ pc = "raised"
             /\ error.type = "ValueError"
             /\ \E k \in OtherKindRows :
                   /\ \A j \in OtherKindRows : k <= j
                   /\ error.msg[3] = CellOf(k, "series_id")
             /\ series_map = <<>>

\* the second and the third of three rows have the value_type "ratio": the
\* load raised and the error names the series id of the second row
C15_Witness ==
    /\ pc = "raised"
    /\ script = "emp"
    /\ csv_file.columns = <<"series_id", "label", "value_type">>
    /\ Len(csv_file.rows) = 3
    /\ OtherKindRows = {2, 3}
    /\ CellOf(1, "value_type") = " Rate "
    /\ error.msg = <<"value_type must be 'level' or 'rate'", "ratio", 2>>

(***************************************************************************)
(* main: the workbook, and the whole run (specification Spec)              *)
(***************************************************************************)
\* the sheets main writes, in order; the employment script writes the change
\* tables in the order build_changes inserted them
SheetNames(scr, chg) ==
    IF scr = "emp"
    THEN <<"Raw_Long", "Pivot_Level">>
         \o SelectSeq(<<"MoM_abs_level", "MoM_pct_level", "YoY_abs_level", "YoY_pct_level",
                        "MoM_pp_rate", "YoY_pp_rate">>, LAMBDA name : name \in DOMAIN chg)
         \o <<"Coverage", "Meta_Info">>
    ELSE <<"Raw_Long", "Pivot_Level", "MoM_pct", "YoY_pct", "Coverage", "Meta_Info">>

\* with pd.ExcelWriter(outfile, engine="openpyxl") as w: the file is opened
\* for writing, which creates or truncates it, or the open raises
OpenWriter ==
    /\ pc = "changes_done"
    /\ \E ok \in BOOLEAN :
       IF ok
       THEN /\ outfile' = [exists |-> TRUE, sheets |-> <<>>]
            /\ book' = <<>>
            /\ pc' = "writing"
            /\ UNCHANGED error
       ELSE /\ error' = [type |-> "OSError", attempt |-> 0]
            /\ pc' = "raised"
            /\ UNCHANGED <<outfile, book>>
    /\ UNCHANGED <<script, posted, slept, settings, market, stdout, exit_status, series_map, b, attempt, last_err,
                   data, calllog, calls, long_frames, df_long, long_df, pivot_level, changes>>

\* the next to_excel of the with block: the sheet is added to the workbook
\* in memory, or the call raises; the exception leaves the with block through
\* ExcelWriter.__exit__, which closes the writer and so saves the workbook
\* as it is
ToExcel ==
    /\ pc = "writing"
    /\ Len(book) < Len(SheetNames(script, changes))
    /\ \E ok \in BOOLEAN :
       IF ok
       THEN /\ book' = Append(book, SheetNames(script, changes)[Len(book) + 1])
            /\ UNCHANGED <<outfile, error, pc>>
       ELSE /\ outfile' = [exists |-> TRUE, sheets |-> book]
            /\ error' = [type |-> "OSError", attempt |-> 0]
            /\ pc' = "raised"
            /\ UNCHANGED book
    /\ UNCHANGED <<script, posted, slept, settings, market, stdout, exit_status, series_map, b, attempt, last_err,
                   data, calllog, calls, long_frames, df_long, long_df, pivot_level, changes>>

\* the end of the with block saves the workbook; print("Saved: ...")
CloseWriter ==
    /\ pc = "writing"
    /\ Len(book) = Len(SheetNames(script, changes))
    /\ outfile' = [exists |-> TRUE, sheets |-> book]
    /\ stdout' = Append(stdout, "Saved")
    /\ pc' = "done"
    /\ UNCHANGED <<script, posted, slept, settings, market, book, exit_status, series_map, b, attempt, last_err,
                   data, calllog, calls, long_frames, df_long, long_df, error, pivot_level,
                   changes>>

Next ==
    \/ CallBls \/ Post \/ Sleep \/ Parse \/ EndLoop
    \/ Cut \/ Pivot \/ ComputePctChanges \/ BuildChanges
    \/ OpenWriter \/ ToExcel \/ CloseWriter

Spec == Init /\ [][Next]_vars

(***************************************************************************)
(* Claims about the whole run (specification Spec)                         *)
(***************************************************************************)
\* the number of batches of the run
NBatches == Len(chunked(SeriesIds(series_map), batch_size))

\* C16: a run ends in one of two outcomes: every batch was fetched and
\* parsed and one complete output file holding all sheets exists, or the run
\* failed and no output file was created or modified; the file is opened
\* only after the last batch has succeeded and all tables are computed, and
\* a failure while writing a sheet does not leave a file holding only some
\* of the sheets.
C16_AllOrNothing ==
    /\ pc = "done" => /\ outfile.exists
                      /\ outfile.sheets = SheetNames(script, changes)
                      /\ Len(long_frames) = NBatches
                      /\ Len(calls) = NBatches
    /\ pc = "raised" => outfile = NoWorkbook
    /\ outfile.exists => Len(long_frames) = NBatches /\ pc \in {"writing", "done", "raised"}

(***************************************************************************)
(* A claim about the values parse_bls_result reads (specification          *)
(* SpecParse)                                                              *)
(***************************************************************************)
\* the value is a number once its grouping separators are taken out
NumberWithSeparators(item) == FloatOf(SelectSeq(item.value, LAMBDA c : c # ",")).ok

\* C17: in each of the three scripts a value with grouping separators
\* ("1,234.5") is parsed to its number, and a monthly item whose value is no
\* number after stripping the separators ("-") makes the call raise, which
\* aborts the run: the item is not skipped. Stated for payloads without an
\* M13 item.
C17_SeparatorsStripped ==
    (pc # "parse_call" /\ \A k \in 1..Len(ItemsIn) : ItemsIn[k].period # M13)
    => /\ (\A k \in 1..Len(ItemsIn) : NumberWithSeparators(ItemsIn[k]))
          => /\ pc = "parsed"
             /\ Count(df_long, LAMBDA r : r.value = 12345)
                  = Count(ItemsIn, LAMBDA it : it.value = VComma /\ it.period \in MonthCodes)
       /\ (\E k \in 1..Len(ItemsIn) :
              ItemsIn[k].period \in MonthCodes /\ ~NumberWithSeparators(ItemsIn[k]))
          => pc = "parse_raised" /\ df_long = <<>>

\* C18: batches are retried independently: the attempt counter of call_bls
\* starts at 1 for every batch whatever happened in earlier batches, every
\* batch that is requested gets between 1 and 3 requests, every request of
\* a call carries exactly the identifiers (and the start year) of its own
\* batch, and a batch is first requested only after every earlier batch has
\* succeeded and been parsed.
C18_BatchesRetriedIndependently ==
    /\ Len(calls) = b
    /\ Len(posted) = b
    /\ \A k \in 1..b :
          /\ posted[k] <= 3
          /\ (k < b \/ pc \notin {"post", "sleep"}) => posted[k] >= 1
    /\ pc \in {"post", "sleep", "parse"}
       => /\ Len(long_frames) = b - 1
          /\ posted[b] = Len(PostEvents)
          /\ \A k \in 1..(b - 1) : calls[k] # calls[b]
    /\ pc \in {"post", "sleep"}
       => attempt = Len(PostEvents) + (IF pc = "post" THEN 1 ELSE 0)
    /\ (pc = "post" /\ calllog = <<>>) => attempt = 1
    /\ \A j \in 1..Len(PostEvents) :
          /\ PostEvents[j].attempt = j
          /\ PostEvents[j].seriesid = calls[b]
          /\ PostEvents[j].seriesid = chunked(SeriesIds(series_map), 50)[b]
          /\ PostEvents[j].startyear = START[1]

\* the first batch needed three requests, and so did the second: its third
\* request carried the identifiers 51 to 100
C18_Witness ==
    /\ pc = "parse"
    /\ Len(series_map) = 101
    /\ b = 2
    /\ posted = <<3, 3>>
    /\ Len(long_frames) = 1
    /\ calllog[5].attempt = 3
    /\ calllog[5].seriesid = [i \in 1..50 |-> 50 + i]

(***************************************************************************)
(* The single-series FRED scripts: specification SpecFred                  *)
(***************************************************************************)
\* export_M2_money_supply, export_VIX_index, export_industrial_production_
\* index, export_federal_funds_effective_rate, export_real_gross_domestic_
\* product
FredScripts == {"m2", "vix", "indpro", "dff", "gdp"}

\* the scripts whose except clauses end with a bare raise; the other two
\* wrap download and save in one try whose except clause only prints
Reraises(scr) == scr \in {"m2", "vix", "indpro"}

InitFred ==
    /\ script \in FredScripts
    /\ pc = "start"
    /\ series_map = <<>>
    /\ b = 0
    /\ attempt = 0
    /\ last_err = NoError
    /\ data = NoData
    /\ calllog = <<>>
    /\ calls = <<>>
    /\ posted = <<>>
    /\ slept = <<>>
    /\ sym = 0
    /\ gold = NoGold
    /\ frames = <<>>
    /\ failed = <<>>
    /\ code = 0
    /\ long_frames = <<>>
    /\ df_long = <<>>
    /\ long_df = <<>>
    /\ error = NoError
    /\ pivot_level = NoPivot
    /\ changes = <<>>
    /\ Defaults

\* df = DataReader(series, "fred", start): the frame (its values, in
\* tenths), or an exception. The except clause prints its message; then the
\* bare raise ends the process with a traceback and the status 1, or, in the
\* two scripts without a raise, the script runs off its end with the status 0.
Download ==
    /\ pc = "start"
    /\ \/ \E df \in ListsUpTo({1000, 1010}, MaxItems) :
             /\ long_df' = df
             /\ stdout' = IF Reraises(script) THEN Append(stdout, "download done")
                          ELSE stdout
             /\ pc' = "downloaded"
             /\ UNCHANGED <<last_err, error, exit_status>>
       \/ /\ last_err' = [type |-> "RemoteDataError", attempt |-> 0]
          /\ stdout' = IF Reraises(script) THEN Append(stdout, "download failed")
                       ELSE stdout \o <<"load or save failed", "check the libraries">>
          /\ error' = IF Reraises(script) THEN last_err' ELSE error
          /\ exit_status' = IF Reraises(script) THEN 1 ELSE 0
          /\ pc' = "exit"
          /\ UNCHANGED long_df
    /\ UNCHANGED <<script, posted, slept, settings, market, outfile, book, series_map, b, attempt, data,
                   calllog, calls, long_frames, df_long, pivot_level, changes>>

\* df.to_excel(file): the workbook is written, or the call raises before or
\* after the file was opened for writing; the except clause as in Download.
\* After the save the script prints its success message and (all but the
\* federal funds script) the last rows.
Save ==
    /\ pc = "downloaded"
    /\ \/ /\ outfile' = [exists |-> TRUE, sheets |-> <<"Sheet1">>]
          /\ stdout' = stdout \o (IF script = "dff" THEN <<"saved">> ELSE <<"saved", "tail">>)
          /\ exit_status' = 0
          /\ pc' = "exit"
          /\ UNCHANGED <<last_err, error>>
       \/ /\ outfile' \in {outfile, [exists |-> TRUE, sheets |-> <<>>]}
          /\ last_err' = [type |-> "OSError", attempt |-> 0]
          /\ stdout' = IF Reraises(script) THEN Append(stdout, "save failed")
                       ELSE stdout \o <<"load or save failed", "check the libraries">>
          /\ error' = IF Reraises(script) THEN last_err' ELSE error
          /\ exit_status' = IF Reraises(script) THEN 1 ELSE 0
          /\ pc' = "exit"
    /\ UNCHANGED <<script, posted, slept, settings, market, book, series_map, b, attempt, data, calllog,
                   calls, long_frames, df_long, long_df, pivot_level, changes>>

NextFred == Download \/ Save

SpecFred == InitFred /\ [][NextFred]_vars

\* C20: in every single-series FRED script, when the download or the save
\* fails, the process ends with a non-zero exit status after printing a
\* message, and the success message is never printed; no script ends with
\* the status 0 after a failed download or save.
C20_FailureExitsNonZero ==
    (pc = "exit" /\ last_err # NoError)
    => /\ exit_status # 0
       /\ Len(stdout) >= 1
       /\ \A i \in 1..Len(stdout) : stdout[i] # "saved"

(***************************************************************************)
(* export_btc_gold: fetch_gold_with_fallback and fetch_yf, specification   *)
(* SpecGold                                                                *)
(***************************************************************************)
\* the candidates in another order
GoldCandidatesFuturesFirst ==
    <<<<"GC=F", "GoldFut">>, <<"XAUUSD=X", "GoldSpot">>, <<"GLD", "GoldETF">>>>

GOLD_CANDIDATES ==
    <<<<"XAUUSD=X", "GoldSpot">>, <<"GC=F", "GoldFut">>, <<"GLD", "GoldETF">>>>

FRED_GOLD_SERIES == <<"GOLDAMGBD228NLBM", "GoldLBMA_AM">>

\* fetch_gold_with_fallback(start=START, end=END) is called: START is
\* "2010-01-01" and END is None
InitGold ==
    /\ script = "gold"
    /\ pc = "gold_loop"
    /\ series_map = <<>>
    /\ b = 0
    /\ attempt = 0
    /\ last_err = NoError
    /\ data = NoData
    /\ calllog = <<>>
    /\ calls = <<>>
    /\ posted = <<>>
    /\ slept = <<>>
    /\ sym = 0
    /\ gold = NoGold
    /\ frames = <<>>
    /\ failed = <<>>
    /\ code = 0
    /\ long_frames = <<>>
    /\ df_long = <<>>
    /\ long_df = <<>>
    /\ error = NoError
    /\ pivot_level = NoPivot
    /\ changes = <<>>
    /\ START = <<2010, 1>>
    /\ END = NoEnd
    /\ csv_file = NoCsv
    /\ NoOutput

\* for sym, label in GOLD_CANDIDATES: print "Trying Yahoo", then fetch_yf is
\* entered: last_err = None and the first pass of its loop
TryYahoo ==
    /\ pc = "gold_loop"
    /\ sym < Len(GOLD_CANDIDATES)
    /\ sym' = sym + 1
    /\ stdout' = Append(stdout, <<"Trying Yahoo", GOLD_CANDIDATES[sym + 1][1]>>)
    /\ attempt' = 1
    /\ last_err' = NoError
    /\ pc' = "yf"
    /\ UNCHANGED <<script, posted, slept, settings, gold, frames, failed, code, outfile, book,
                   exit_status, series_map, b, data, calllog, calls, long_frames, df_long,
                   long_df, error, pivot_level, changes>>

\* one pass of the loop of fetch_yf: yf.download answers with a frame of
\* some columns and some number of rows, or raises; an empty frame raises
\* ValueError. A frame with rows is returned with the price columns it has
\* (all its columns when it has none of them), and fetch_gold_with_fallback
\* returns it with the label. After a failure the loop sleeps, or on the last
\* pass raises; fetch_gold_with_fallback prints "Failed" and goes on.
YfDownload ==
    /\ pc = "yf"
    /\ \E resp \in {[raises |-> TRUE, columns |-> <<>>, n |-> 0],
                    [raises |-> FALSE, columns |-> <<"Close", "Volume">>, n |-> 0],
                    [raises |-> FALSE, columns |-> <<"Close", "Volume">>, n |-> 2],
                    [raises |-> FALSE, columns |-> <<"Close", "Dividends", "Volume">>, n |-> 2],
                    [raises |-> FALSE, columns |-> <<"Price">>, n |-> 2]} :
        /\ calllog' = Append(calllog, [ev |-> "yf", source |-> GOLD_CANDIDATES[sym][1],
                                       attempt |-> attempt, resp |-> resp])
        /\ IF ~resp.raises /\ resp.n > 0 /\ resp.columns # <<>>
           THEN /\ \E cols \in {SelectSeq(<<"Open", "High", "Low", "Close", "Adj Close", "Volume">>,
                                          LAMBDA c : \E i \in 1..Len(resp.columns) :
                                                         resp.columns[i] = c)} :
                      gold' = <<GOLD_CANDIDATES[sym][2],
                                [columns |-> IF cols # <<>> THEN cols ELSE resp.columns,
                                 n |-> resp.n]>>
                /\ pc' = "returned"
                /\ UNCHANGED <<last_err, stdout>>
           ELSE /\ last_err' = [type |-> IF resp.raises THEN "Exception" ELSE "ValueError",
                                attempt |-> attempt]
                /\ IF attempt < RETRIES
                   THEN pc' = "yf_sleep" /\ UNCHANGED stdout
                   ELSE /\ pc' = "gold_loop"
                        /\ stdout' = Append(stdout, <<"Failed", GOLD_CANDIDATES[sym][1]>>)
                /\ UNCHANGED gold
    /\ UNCHANGED <<script, posted, slept, settings, sym, frames, failed, code, outfile, book,
                   exit_status, series_map, b, attempt, data, calls, long_frames, df_long,
                   long_df, error, pivot_level, changes>>

\* time.sleep(BACKOFF ** attempt) in fetch_yf, then the next pass
YfSleep ==
    /\ pc = "yf_sleep"
    /\ calllog' = Append(calllog, [ev |-> "sleep", ms |-> BackoffDelay(attempt)])
    /\ attempt' = attempt + 1
    /\ pc' = "yf"
    /\ UNCHANGED <<script, posted, slept, settings, market, output, series_map, b, last_err,
                   data, calls, long_frames, df_long, long_df, error, pivot_level, changes>>

\* after the loop: print "Trying FRED", one DataReader call; an exception
\* leaves the function, an empty frame raises ValueError, a frame with rows
\* is returned as the one column "Price" with the label
TryFred ==
    /\ pc = "gold_loop"
    /\ sym = Len(GOLD_CANDIDATES)
    /\ sym' = sym + 1
    /\ stdout' = Append(stdout, <<"Trying FRED", FRED_GOLD_SERIES[1]>>)
    /\ \E resp \in {[raises |-> TRUE, columns |-> <<>>, n |-> 0],
                    [raises |-> FALSE, columns |-> <<FRED_GOLD_SERIES[1]>>, n |-> 0],
                    [raises |-> FALSE, columns |-> <<FRED_GOLD_SERIES[1]>>, n |-> 2],
                    [raises |-> FALSE, columns |-> <<FRED_GOLD_SERIES[1]>>, n |-> 3]} :
        /\ calllog' = Append(calllog, [ev |-> "fred", source |-> FRED_GOLD_SERIES[1],
                                       attempt |-> 1, resp |-> resp])
        /\ IF ~resp.raises /\ resp.n > 0
           THEN /\ gold' = <<FRED_GOLD_SERIES[2], [columns |-> <<"Price">>, n |-> resp.n]>>
                /\ pc' = "returned"
                /\ UNCHANGED error
           ELSE /\ error' = [type |-> IF resp.raises THEN "Exception" ELSE "ValueError",
                             attempt |-> 0]
                /\ pc' = "raised"
                /\ UNCHANGED gold
    /\ UNCHANGED <<script, posted, slept, settings, frames, failed, code, outfile, book, exit_status,
                   series_map, b, attempt, last_err, data, calls, long_frames, df_long,
                   long_df, pivot_level, changes>>

NextGold == TryYahoo \/ YfDownload \/ YfSleep \/ TryFred

SpecGold == InitGold /\ [][NextGold]_vars

\* the requests sent so far, in order
Contacts == SelectSeq(calllog, LAMBDA e : e.ev \in {"yf", "fred"})

\* the sources in the order the fallback is to try them, with their labels
SourceOrder == <<"XAUUSD=X", "GC=F", "GLD", "GOLDAMGBD228NLBM">>
SourceLabels == <<"GoldSpot", "GoldFut", "GoldETF", "GoldLBMA_AM">>
SourceIndex(s) == CHOOSE i \in 1..4 : SourceOrder[i] = s

\* the request answered with a frame that has rows
ContactOk(e) == ~e.resp.raises /\ e.resp.n > 0

\* C21: fetch_gold_with_fallback tries XAUUSD=X, GC=F, GLD, then FRED
\* GOLDAMGBD228NLBM in this order; it returns the label and the data of the
\* first source that succeeds and contacts no source after a success; a
\* Yahoo candidate is left only after 3 failed attempts (an empty download
\* is a failure); FRED is requested only after all three candidates failed,
\* exactly once, and its failure or empty result fails the function.
C21_GoldFallbackOrder ==
    /\ \A j \in 1..Len(Contacts) :
          /\ \E i \in 1..4 : SourceOrder[i] = Contacts[j].source
          /\ j = 1 => Contacts[j].source = "XAUUSD=X" /\ Contacts[j].attempt = 1
          /\ j > 1 =>
               /\ ~ContactOk(Contacts[j - 1])
               /\ Contacts[j - 1].ev = "yf"
               /\ IF Contacts[j - 1].attempt < 3
                  THEN /\ Contacts[j].source = Contacts[j - 1].source
                       /\ Contacts[j].attempt = Contacts[j - 1].attempt + 1
                  ELSE /\ SourceIndex(Contacts[j].source)
                             = SourceIndex(Contacts[j - 1].source) + 1
                       /\ Contacts[j].attempt = 1
          /\ Contacts[j].ev = "fred" <=> Contacts[j].source = "GOLDAMGBD228NLBM"
          /\ Contacts[j].ev = "fred" => j = 10
    /\ Len(Contacts) <= 10
    /\ pc = "returned" <=> (Len(Contacts) > 0 /\ ContactOk(Contacts[Len(Contacts)]))
    /\ pc = "returned" <=> gold # NoGold
    /\ pc = "returned" =>
          /\ gold[1] = SourceLabels[SourceIndex(Contacts[Len(Contacts)].source)]
          /\ gold[2].n = Contacts[Len(Contacts)].resp.n
          /\ \A i \in 1..Len(gold[2].columns) :
                \/ gold[2].columns = <<"Price">>
                \/ \E k \in 1..Len(Contacts[Len(Contacts)].resp.columns) :
                      Contacts[Len(Contacts)].resp.columns[k] = gold[2].columns[i]
    /\ pc = "raised" <=> (/\ Len(Contacts) = 10
                          /\ Contacts[10].ev = "fred"
                          /\ ~ContactOk(Contacts[10]))
    /\ pc = "raised" => error # NoError

\* C21 witness: the first two candidates failed three times each, one of the
\* failures an empty download, and the third candidate answered on its last
\* attempt
C21_Witness ==
    /\ pc = "returned"
    /\ gold[1] = "GoldETF"
    /\ Len(Contacts) = 9
    /\ ~Contacts[2].resp.raises
    /\ Contacts[8].source = "GLD"

\* C21 witness of the last resort: FRED answered after nine failed downloads
C21_WitnessFred ==
    /\ pc = "returned"
    /\ gold = <<"GoldLBMA_AM", [columns |-> <<"Price">>, n |-> 3]>>

(***************************************************************************)
(* export_cpi: the fetch loop, the merge and the workbook, specification   *)
(* SpecFredCpi                                                             *)
(***************************************************************************)
\* code -> label, in the order of the dict
series_dict ==
    <<<<"CPIAUCSL", "All Items (Headline CPI, SA)">>,
      <<"CPILFESL", "Core CPI (Ex. Food & Energy, SA)">>,
      <<"CPIFABSL", "Food & Beverages (SA)">>,
      <<"CPIENGSL", "Energy (SA)">>,
      <<"CPIHOSSL", "Housing (SA)">>,
      <<"CPIAPPSL", "Apparel (SA)">>,
      <<"CPITRNSL", "Transportation (SA)">>,
      <<"CPIMEDSL", "Medical Care (SA)">>,
      <<"CPIRECSL", "Recreation (SA)">>,
      <<"CPIEDUSL", "Education & Communication (SA)">>,
      <<"CPIOGSSL", "Other Goods & Services (SA)">>>>

\* frames = [] and failed = {} before the loop
InitFredCpi ==
    /\ script = "fred_cpi"
    /\ pc = "cpi_loop"
    /\ series_map = <<>>
    /\ b = 0
    /\ attempt = 0
    /\ last_err = NoError
    /\ data = NoData
    /\ calllog = <<>>
    /\ calls = <<>>
    /\ posted = <<>>
    /\ slept = <<>>
    /\ sym = 0
    /\ gold = NoGold
    /\ frames = <<>>
    /\ failed = <<>>
    /\ code = 0
    /\ long_frames = <<>>
    /\ df_long = <<>>
    /\ long_df = <<>>
    /\ error = NoError
    /\ pivot_level = NoPivot
    /\ changes = <<>>
    /\ START = <<2000, 1>>
    /\ END = NoEnd
    /\ csv_file = NoCsv
    /\ NoOutput

\* one pass of the loop: fred.get_series(code) returns the series, which is
\* appended to frames as a frame named by the label, or raises, and
\* failed[code] = str(e); a dict assignment replaces the value of a key it has
GetSeries ==
    /\ pc = "cpi_loop"
    /\ code < Len(series_dict)
    /\ \E i \in {code + 1}, ok \in BOOLEAN :
        /\ code' = i
        /\ calllog' = Append(calllog, [ev |-> "get_series", code |-> series_dict[i][1],
                                       ok |-> ok])
        /\ IF ok
           THEN /\ frames' = Append(frames, [name |-> series_dict[i][2],
                                             of |-> series_dict[i][1]])
                /\ UNCHANGED failed
           ELSE /\ failed' =
                     IF \E k \in 1..Len(failed) : failed[k][1] = series_dict[i][1]
                     THEN [k \in 1..Len(failed) |->
                              IF failed[k][1] = series_dict[i][1]
                              THEN <<series_dict[i][1], "Bad Request">> ELSE failed[k]]
                     ELSE Append(failed, <<series_dict[i][1], "Bad Request">>)
                /\ UNCHANGED frames
    /\ UNCHANGED <<script, pc, posted, slept, settings, sym, gold, output, series_map, b,
                   attempt, last_err, data, calls, long_frames, df_long, long_df, error,
                   pivot_level, changes>>

\* a merge that accepts an empty list of frames
MergeOfAnything ==
    /\ pc = "cpi_loop"
    /\ code = Len(series_dict)
    /\ long_df' = [k \in 1..Len(frames) |-> frames[k].name]
    /\ pc' = "merged"
    /\ UNCHANGED <<script, posted, slept, settings, market, output, series_map, b, attempt,
                   last_err, data, calllog, calls, long_frames, df_long, error, pivot_level,
                   changes>>

\* result = pd.concat(frames, axis=1): ValueError when frames is empty;
\* the YoY table has the same columns with " YoY(%)" appended
Merge ==
    /\ pc = "cpi_loop"
    /\ code = Len(series_dict)
    /\ IF frames = <<>>
       THEN /\ error' = [type |-> "ValueError", attempt |-> 0]
            /\ pc' = "raised"
            /\ UNCHANGED long_df
       ELSE /\ long_df' = [k \in 1..Len(frames) |-> frames[k].name]
            /\ pc' = "merged"
            /\ UNCHANGED error
    /\ UNCHANGED <<script, posted, slept, settings, market, output, series_map, b, attempt,
                   last_err, data, calllog, calls, long_frames, df_long, pivot_level, changes>>

\* the with block: the writer is opened, which creates the file, or the open
\* raises; the sheets are written in order, and a to_excel that raises
\* leaves the block through ExcelWriter.__exit__, which saves the sheets
\* written so far; after the block the two prints
WriteWorkbook ==
    /\ pc = "merged"
    /\ \E sheets \in {<<"Index(SA)", "YoY(%)">>
                      \o (IF failed # <<>> THEN <<"Skipped">> ELSE <<>>)} :
       \E written \in (0..Len(sheets)) \cup {-1} :
          IF written = -1
          THEN /\ error' = [type |-> "OSError", attempt |-> 0]
               /\ pc' = "raised"
               /\ UNCHANGED <<outfile, book, stdout>>
          ELSE /\ book' = SubSeq(sheets, 1, written)
               /\ outfile' = [exists |-> TRUE, sheets |-> book']
               /\ IF written = Len(sheets)
                  THEN /\ stdout' = stdout \o <<"Saved">>
                                    \o (IF failed # <<>> THEN <<"Skipped series">> ELSE <<>>)
                       /\ pc' = "done"
                       /\ UNCHANGED error
                  ELSE /\ error' = [type |-> "OSError", attempt |-> 0]
                       /\ pc' = "raised"
                       /\ UNCHANGED stdout
    /\ UNCHANGED <<script, posted, slept, settings, market, exit_status, series_map, b, attempt,
                   last_err, data, calllog, calls, long_frames, df_long, long_df, pivot_level,
                   changes>>

NextFredCpi == GetSeries \/ Merge \/ WriteWorkbook

SpecFredCpi == InitFredCpi /\ [][NextFredCpi]_vars

\* the codes that have a frame, and the codes that are keys of failed
FrameCodes == {frames[k].of : k \in 1..Len(frames)}
FailedCodes == {failed[k][1] : k \in 1..Len(failed)}

\* C22: after the fetch loop of export_cpi every code of series_dict has
\* either a frame in frames or a key in failed with the error text, never
\* both and never neither; a failure does not stop the later fetches and is
\* not retried; the "Skipped" sheet is written exactly when failed is not
\* empty; and when every series fails the script raises at the merge without
\* writing any file.
C22_EverySeriesAccounted ==
    /\ Len(calllog) = code
    /\ \A k \in 1..Len(calllog) : calllog[k].code = series_dict[k][1]
    /\ FrameCodes = {calllog[k].code : k \in {j \in 1..Len(calllog) : calllog[j].ok}}
    /\ FailedCodes = {calllog[k].code : k \in {j \in 1..Len(calllog) : ~calllog[j].ok}}
    /\ Len(frames) + Len(failed) = code
    /\ \A k \in 1..Len(failed) : failed[k][2] = "Bad Request"
    /\ pc # "cpi_loop" =>
          /\ code = Len(series_dict)
          /\ \A k \in 1..Len(series_dict) :
                (series_dict[k][1] \in FrameCodes) # (series_dict[k][1] \in FailedCodes)
    /\ pc = "done" =>
          /\ outfile.exists
          /\ (\E k \in 1..Len(outfile.sheets) : outfile.sheets[k] = "Skipped")
                <=> failed # <<>>
    /\ outfile.exists =>
          \A k \in 1..Len(outfile.sheets) : outfile.sheets[k] = "Skipped" => failed # <<>>
    /\ (pc # "cpi_loop" /\ frames = <<>>) =>
          /\ pc = "raised"
          /\ error.type = "ValueError"
          /\ ~outfile.exists
          /\ stdout = <<>>

\* C22 witness: the first series failed, later ones were fetched, and the
\* workbook was saved with the "Skipped" sheet
C22_Witness ==
    /\ pc = "done"
    /\ ~calllog[1].ok
    /\ calllog[2].ok
    /\ Len(failed) = 2
    /\ outfile.sheets = <<"Index(SA)", "YoY(%)", "Skipped">>

\* C22 witness of the total failure: no series was fetched
C22_WitnessAllFailed ==
    /\ pc = "raised"
    /\ Len(failed) = Len(series_dict)
    /\ frames = <<>>

(***************************************************************************)
(* Termination of a BLS run                                                *)
(***************************************************************************)
\* the catalogs of the runs checked for termination: the empty one, and one
\* of two batches
LiveSizes == {0, batch_size + 1}

InitLive == Init /\ Len(series_map) \in LiveSizes

\* the interpreter runs the next statement of the script; every request
\* returns or fails (requests.post is given a timeout), every sleep ends
LiveSpec == InitLive /\ [][Next]_vars /\ WF_vars(Next)

RECURSIVE SumTo(_, _)
SumTo(seq, n) == IF n = 0 THEN 0 ELSE seq[n] + SumTo(seq, n - 1)

\* ceil(n / 50)
BatchesOf(n) == (n + 49) \div 50

\* the requests and the sleeps of a run stay within 3 and 2 per batch, and
\* call_bls is left only by its return or its raise: the loop variable never
\* passes RETRIES, and the payload handed on is a successful one
C23_Bounded ==
    /\ Len(posted) <= BatchesOf(Len(series_map))
    /\ Len(slept) = Len(posted)
    /\ SumTo(posted, Len(posted)) <= 3 * BatchesOf(Len(series_map))
    /\ SumTo(slept, Len(slept)) <= 2 * BatchesOf(Len(series_map))
    /\ \A k \in 1..Len(posted) : posted[k] <= 3 /\ slept[k] <= 2
    /\ attempt <= 3
    /\ pc \in {"post", "sleep"} => attempt \in 1..3
    /\ pc = "sleep" => attempt <= 2
    /\ pc = "parse" => data # NoData /\ data.status = "REQUEST_SUCCEEDED"
    /\ (pc = "raised" /\ error.type \notin {"ValueError", "OSError"} /\ b > 0
          /\ Len(long_frames) = b - 1 /\ posted[b] = 3)
       => error # NoError

\* C23: every run of a BLS script terminates whatever the provider answers:
\* for a catalog of n identifiers it issues at most 3 * ceil(n/50) requests
\* and at most 2 * ceil(n/50) sleeps and ends in the saved state or with a
\* raised error; call_bls ends by returning a successful payload or by
\* raising, never by leaving its loop.
C23_Terminates == []C23_Bounded /\ <>(pc \in {"done", "raised"})

\* C23 witness: two batches of three requests each, the provider failing
\* twice for every batch, and the run saved
C23_Witness ==
    /\ pc = "done"
    /\ Len(series_map) = 51
    /\ posted = <<3, 3>>
    /\ slept = <<2, 2>>

====
